---- MODULE Spec2Model ----
(***************************************************************************)
(* Model of the graph pipeline of GVPA: call resolution                    *)
(* (core/project_analyzer.py), diff merge (core/git_analyzer.py), graph    *)
(* construction, ordering, layout and serialization                        *)
(* (core/code_graph_builder.py) and the layout optimizer                   *)
(* (ai/plugins/layout_optimizer.py).                                       *)
(*                                                                         *)
(* A networkx DiGraph is a record                                          *)
(*   [nodes : sequence of node names in insertion order,                   *)
(*    attrs : node name -> attribute record,                               *)
(*    succ  : node name -> sequence of successors in insertion order,      *)
(*    eattrs: <<u, v>> -> attribute record]                                *)
(* An attribute a Python dict does not hold is the value NoVal.            *)
(***************************************************************************)
EXTENDS Integers, Sequences, FiniteSets, TLC

NoVal == "<none>"

\* the same for an attribute that holds a number
NoInt == 0 - 1

IntKeys == {"weight", "func_count", "width", "height", "x", "y"}

Missing(k, v) == IF k \in IntKeys THEN v = NoInt ELSE IF k = "locked" THEN FALSE ELSE v = NoVal

(***************************************************************************)
(* Generic helpers                                                         *)
(***************************************************************************)
\* a local variable: F applied to the value of v, which is computed first and
\* once
With(v, F(_)) == CHOOSE r \in {F(x) : x \in {v}} : TRUE

\* a Python list whose elements have been computed
List(s) == SubSeq(s, 1, Len(s))

Range(s) == {s[i] : i \in DOMAIN s}

Last(s) == s[Len(s)]

Front(s) == SubSeq(s, 1, Len(s) - 1)

Has(s, x) == \E i \in DOMAIN s : s[i] = x

\* dict.get(key, default)
Get(d, k, default) == IF k \in DOMAIN d THEN d[k] ELSE default

\* a left fold over s[lo..hi], split in halves so that the evaluation depth is
\* logarithmic in the length of the list
RECURSIVE FoldRange(_, _, _, _, _)
FoldRange(Op(_, _), acc, s, lo, hi) ==
    IF lo > hi THEN acc
    ELSE IF lo = hi THEN Op(acc, s[lo])
    ELSE With(FoldRange(Op, acc, s, lo, (lo + hi) \div 2),
              LAMBDA left : FoldRange(Op, left, s, ((lo + hi) \div 2) + 1, hi))

FoldLeft(Op(_, _), acc, s) == FoldRange(Op, acc, s, 1, Len(s))

\* the position of every element of keys in the stable ascending order
Ranks(keys) ==
    List([i \in DOMAIN keys |->
            Cardinality({j \in DOMAIN keys :
                            keys[j] < keys[i] \/ (keys[j] = keys[i] /\ j < i)}) + 1])

\* list.sort(key=...) / sorted(..., key=...): stable, so ties keep list order
StableSort(s, Key(_)) ==
    With(Ranks(List([i \in DOMAIN s |-> Key(s[i])])),
         LAMBDA r : List([k \in DOMAIN s |-> s[CHOOSE i \in DOMAIN s : r[i] = k]]))

MaxOf(S) == CHOOSE m \in S : \A x \in S : x <= m

MinOf(S) == CHOOSE m \in S : \A x \in S : m <= x

IndexIn(s, x) == CHOOSE i \in DOMAIN s : s[i] = x

\* the set of numbers S as an ascending list
Ascending(S) == List([i \in 1..Cardinality(S) |->
                        CHOOSE e \in S : Cardinality({d \in S : d < e}) + 1 = i])

\* dict keys in insertion order: the distinct elements of s by first occurrence
KeysInOrder(s) ==
    With(Ascending({MinOf({i \in DOMAIN s : s[i] = k}) : k \in Range(s)}),
         LAMBDA firsts : List([j \in DOMAIN firsts |-> s[firsts[j]]]))

(***************************************************************************)
(* networkx.DiGraph                                                        *)
(***************************************************************************)
EmptyGraph == [nodes |-> <<>>, attrs |-> <<>>, succ |-> <<>>, eattrs |-> <<>>]

HasNode(G, n) == n \in DOMAIN G.attrs

HasEdge(G, u, v) == <<u, v>> \in DOMAIN G.eattrs

\* dict.update: a key the new dict holds replaces the old value
MergeAttrs(old, new) == [k \in DOMAIN old |-> IF Missing(k, new[k]) THEN old[k] ELSE new[k]]

AddNode(G, n, a) ==
    IF HasNode(G, n)
    THEN [G EXCEPT !.attrs[n] = MergeAttrs(@, a)]
    ELSE [G EXCEPT !.nodes = Append(@, n),
                   !.attrs = (n :> a) @@ @,
                   !.succ = (n :> <<>>) @@ @]

\* both end points are nodes already at every call site
AddEdge(G, u, v, a) ==
    IF HasEdge(G, u, v)
    THEN [G EXCEPT !.eattrs[<<u, v>>] = MergeAttrs(@, a)]
    ELSE [G EXCEPT !.succ[u] = Append(@, v),
                   !.eattrs = (<<u, v>> :> a) @@ @]

RemoveEdge(G, u, v) ==
    [G EXCEPT !.succ[u] = SelectSeq(@, LAMBDA w : w # v),
              !.eattrs = [e \in DOMAIN @ \ {<<u, v>>} |-> @[e]]]

RemoveEdges(G, E) ==
    [G EXCEPT !.succ = [n \in DOMAIN @ |-> SelectSeq(@[n], LAMBDA w : <<n, w>> \notin E)],
              !.eattrs = [e \in DOMAIN @ \ E |-> @[e]]]

\* dag = G: the two names are names of one object
ShareGraph(G) == [G |-> G, same |-> TRUE]

\* dag = G.copy(): dag names an object of its own
CopyGraph(G) == [G |-> G, same |-> FALSE]

\* the graph G names once the edges have been removed that make dag of the
\* object dag names
AfterRemovals(names, dag) == IF names.same THEN dag ELSE names.G

\* G.edges(): node by node in node order, each node's successors in order
EdgesOf(G) ==
    FoldLeft(LAMBDA acc, n : acc \o [i \in DOMAIN G.succ[n] |-> <<n, G.succ[n][i]>>],
             <<>>, G.nodes)

NumberOfEdges(G) == Cardinality(DOMAIN G.eattrs)

InDegree(G, n) == Cardinality({e \in DOMAIN G.eattrs : e[2] = n})

(***************************************************************************)
(* networkx.edge_dfs(G, start, orientation): a depth-first traversal that  *)
(* yields every edge reachable from start once.  The traversal keeps a     *)
(* stack of nodes and one edge iterator per visited node (it[n] is the     *)
(* position of the next successor of n to look at).                        *)
(***************************************************************************)
RECURSIVE EdgeDfsRun(_, _)
EdgeDfsRun(G, st) ==
    IF st.stack = <<>> THEN st.out
    ELSE LET cur == Last(st.stack)
             pos == IF Last(st.stack) \in DOMAIN st.it THEN st.it[Last(st.stack)] ELSE 1
         IN  IF pos > Len(G.succ[cur])
             THEN \* StopIteration: no more edges from the current node
                  EdgeDfsRun(G, [st EXCEPT !.stack = Front(@), !.it = (cur :> pos) @@ @])
             ELSE IF <<cur, G.succ[cur][pos]>> \in st.vedges
             THEN EdgeDfsRun(G, [st EXCEPT !.it = (cur :> pos + 1) @@ @])
             ELSE EdgeDfsRun(G, [st EXCEPT !.it = (cur :> pos + 1) @@ @,
                                           !.vedges = @ \cup {<<cur, G.succ[cur][pos]>>},
                                           !.stack = Append(@, G.succ[cur][pos]),
                                           !.out = Append(@, <<cur, G.succ[cur][pos]>>)])

EdgeDfs(G, start) ==
    EdgeDfsRun(G, [stack |-> <<start>>, it |-> <<>>, vedges |-> {}, out |-> <<>>])

(***************************************************************************)
(* networkx.find_cycle(G, orientation='original' or None).  The result is  *)
(* [found, cycle, err]: cycle is the list of edges of the cycle found, the *)
(* edge that closes it last; err is an exception other than NoCycle (the   *)
(* KeyError of active_nodes.remove).                                       *)
(***************************************************************************)
\* "Pop until we get a node whose head equals the current tail"
RECURSIVE PopUntil(_, _)
PopUntil(st, tail) ==
    IF st.edges = <<>>
    THEN [st EXCEPT !.active = {tail}]
    ELSE IF Last(st.edges)[2] \notin st.active
    THEN [st EXCEPT !.err = TRUE]
    ELSE IF Len(st.edges) > 1 /\ st.edges[Len(st.edges) - 1][2] = tail
    THEN [st EXCEPT !.edges = Front(@), !.active = @ \ {Last(st.edges)[2]}]
    ELSE PopUntil([st EXCEPT !.edges = Front(@), !.active = @ \ {Last(st.edges)[2]}], tail)

\* edges.append(edge) and the test of the head
CyclePush(st, edge) ==
    IF st.err THEN st
    ELSE IF edge[2] \in st.active
    THEN [st EXCEPT !.edges = Append(@, edge), !.found = TRUE, !.final = edge[2]]
    ELSE [st EXCEPT !.edges = Append(@, edge),
                    !.seen = @ \cup {edge[2]},
                    !.active = @ \cup {edge[2]},
                    !.prev = edge[2]]

\* the body of the loop over the edges edge_dfs yields
CycleEdgeStep(explored, st, edge) ==
    IF st.found \/ st.err \/ edge[2] \in explored THEN st
    ELSE CyclePush(IF st.prev # NoVal /\ edge[1] # st.prev THEN PopUntil(st, edge[1]) ELSE st,
                   edge)

\* the end of the body of the loop over the start nodes
CycleStartEnd(acc, st) ==
    IF st.err THEN [acc EXCEPT !.err = TRUE]
    ELSE IF st.found
    THEN [acc EXCEPT !.found = TRUE, !.cycle = st.edges, !.final = st.final]
    ELSE [acc EXCEPT !.explored = @ \cup st.seen]

\* the body of the loop over the start nodes
CycleStartStep(G, acc, start) ==
    IF acc.found \/ acc.err \/ start \in acc.explored THEN acc
    ELSE CycleStartEnd(acc,
             FoldLeft(LAMBDA s, e : CycleEdgeStep(acc.explored, s, e),
                      [edges |-> <<>>, seen |-> {start}, active |-> {start},
                       prev |-> NoVal, found |-> FALSE, final |-> NoVal, err |-> FALSE],
                      EdgeDfs(G, start)))

\* drop the edges that lead to the cycle: cycle[i:]
CycleTail(acc) ==
    [found |-> acc.found,
     err |-> acc.err,
     cycle |-> IF acc.found
               THEN SubSeq(acc.cycle,
                           CHOOSE i \in DOMAIN acc.cycle :
                               /\ acc.cycle[i][1] = acc.final
                               /\ \A j \in 1..(i - 1) : acc.cycle[j][1] # acc.final,
                           Len(acc.cycle))
               ELSE <<>>]

FindCycle(G) ==
    CycleTail(FoldLeft(LAMBDA a, n : CycleStartStep(G, a, n),
                       [explored |-> {}, found |-> FALSE, cycle |-> <<>>,
                        final |-> NoVal, err |-> FALSE],
                       G.nodes))

(***************************************************************************)
(* networkx.topological_generations / topological_sort.  [ok, gens]: ok is *)
(* FALSE when NetworkXUnfeasible is raised (the graph has a cycle).        *)
(***************************************************************************)
\* one child of one node of this_generation
TopoChildStep(st, child) ==
    IF st.indeg[child] = 1
    THEN [st EXCEPT !.indeg = [c \in DOMAIN @ \ {child} |-> @[c]],
                    !.zero = Append(@, child)]
    ELSE [st EXCEPT !.indeg[child] = @ - 1]

RECURSIVE TopoRun(_, _, _)
TopoRun(G, st, gens) ==
    IF st.zero = <<>> THEN [ok |-> DOMAIN st.indeg = {}, gens |-> gens]
    ELSE TopoRun(G,
                 FoldLeft(LAMBDA s, n : FoldLeft(TopoChildStep, s, G.succ[n]),
                          [indeg |-> st.indeg, zero |-> <<>>], st.zero),
                 Append(gens, st.zero))

TopologicalGenerations(G) ==
    TopoRun(G,
            [indeg |-> [n \in {m \in DOMAIN G.attrs : InDegree(G, m) > 0} |-> InDegree(G, n)],
             zero |-> SelectSeq(G.nodes, LAMBDA n : InDegree(G, n) = 0)],
            <<>>)

Flatten(gens) == FoldLeft(LAMBDA acc, g : acc \o g, <<>>, gens)

\* [ok, order]
TopoOrder(r) == [ok |-> r.ok, order |-> Flatten(r.gens)]

TopologicalSort(G) == TopoOrder(TopologicalGenerations(G))

(***************************************************************************)
(* networkx.simple_cycles: every elementary cycle once, as a list of       *)
(* nodes.  networkx roots the search at an arbitrary node of a strongly    *)
(* connected component, lists every cycle through the root from the root,  *)
(* removes the root and goes on; roots is the order in which nodes are     *)
(* taken as root, so a cycle is listed from its first node in roots.       *)
(***************************************************************************)
RECURSIVE CyclesFrom(_, _, _, _)
CyclesFrom(G, roots, root, path) ==
    (IF HasEdge(G, Last(path), root) THEN {path} ELSE {})
    \cup UNION {CyclesFrom(G, roots, root, Append(path, v)) :
                  v \in {w \in Range(G.succ[Last(path)]) :
                            IndexIn(roots, w) > IndexIn(roots, root) /\ ~Has(path, w)}}

\* a node without outgoing edges is on no cycle
SimpleCycles(G, roots) ==
    UNION {CyclesFrom(G, roots, n, <<n>>) : n \in {m \in DOMAIN G.succ : G.succ[m] # <<>>}}

(***************************************************************************)
(* CodeGraphBuilder                                                        *)
(***************************************************************************)
NODE_LIMIT_CAP == 2000

MAX_NODES == 600

MAX_EDGES == 1000

EDGE_CYCLE_CHECK_LIMIT == 200

COLUMN_WIDTH == 450

ROW_HEIGHT == 150

STAGGER == 40

ORIGIN_OFFSET == 100

BUCKET_SIZE == 10

PHYSICAL_LAYERS ==
    ("INPUT_SOURCE" :> 0) @@ ("PROCESSING" :> 1) @@ ("COMPUTATION" :> 2)
    @@ ("OUTPUT" :> 3) @@ ("OTHER" :> 4)

LOGIC_LAYERS == ("ROOT" :> 0) @@ ("MODULE" :> 1) @@ ("FILE" :> 2) @@ ("LOGIC" :> 3)

\* Python truthiness of an optional string
Truthy(v) == v # NoVal /\ v # ""

\* str.upper() on the layer names overrides use
Upper(v) ==
    CASE v = "input_source" -> "INPUT_SOURCE"
      [] v = "processing" -> "PROCESSING"
      [] v = "output" -> "OUTPUT"
      [] OTHER -> v

\* "cv2." in node_id
ContainsCv2(id) == id \in {"cv2.blur"}

\* the physical layer of a node type
PhysicalOf(id, node_type) ==
    IF node_type \in {"Read Image", "Video Capture", "Input"} THEN "INPUT_SOURCE"
    ELSE IF node_type \in {"Canny Edge", "Convert Color", "Gaussian Blur"} \/ ContainsCv2(id)
    THEN "PROCESSING"
    ELSE IF node_type = "GenericFunction" \/ node_type = "Function" THEN "COMPUTATION"
    ELSE IF node_type \in {"Show Image", "Save Image", "Output"} THEN "OUTPUT"
    ELSE "OTHER"

\* the logical layer of a node type
LogicalOf(id, node_type) ==
    IF node_type = "Project" \/ id = "root" THEN "ROOT"
    ELSE IF node_type = "Module" THEN "MODULE"
    ELSE IF node_type = "File" THEN "FILE"
    ELSE "LOGIC"

\* a variant of TypeOf: a node without a type gets no type at all
TypeOfUntyped(attrs) == IF attrs.type = NoVal THEN "Unknown" ELSE attrs.type

\* attrs.get("type", "Function")
TypeOf(attrs) == IF attrs.type = NoVal THEN "Function" ELSE attrs.type

\* a variant of ClassifyNode: a manual layer leaves the logical layer to the type
ClassifyNodeKeepLogical(id, attrs) ==
    IF attrs.layer # NoVal /\ Upper(attrs.layer) \in DOMAIN PHYSICAL_LAYERS
    THEN <<PHYSICAL_LAYERS[Upper(attrs.layer)], LOGIC_LAYERS[LogicalOf(id, TypeOf(attrs))],
           Upper(attrs.layer)>>
    ELSE <<PHYSICAL_LAYERS[PhysicalOf(id, TypeOf(attrs))],
           LOGIC_LAYERS[LogicalOf(id, TypeOf(attrs))],
           PhysicalOf(id, TypeOf(attrs))>>

\* _classify_node: <<physical index, logical index, style key>>
ClassifyNode(id, attrs) ==
    IF attrs.layer # NoVal /\ Upper(attrs.layer) \in DOMAIN PHYSICAL_LAYERS
    THEN <<PHYSICAL_LAYERS[Upper(attrs.layer)], LOGIC_LAYERS["MODULE"], Upper(attrs.layer)>>
    ELSE <<PHYSICAL_LAYERS[PhysicalOf(id, TypeOf(attrs))],
           LOGIC_LAYERS[LogicalOf(id, TypeOf(attrs))],
           PhysicalOf(id, TypeOf(attrs))>>

\* min(user_node_limit, 2000)
CapNodeLimit(user) == IF user < NODE_LIMIT_CAP THEN user ELSE NODE_LIMIT_CAP

\* __init__: the limits of the Scale Guard from the user's settings
GraphNodeLimit(settings) ==
    CapNodeLimit(IF settings.graph_node_limit = NoInt THEN MAX_NODES
                 ELSE settings.graph_node_limit)

GraphEdgeLimit(settings) ==
    IF settings.graph_edge_limit = NoInt THEN MAX_EDGES ELSE settings.graph_edge_limit

\* a variant of UseAggregated: ">=" for ">"
UseAggregatedAtLimit(analysis, settings) ==
    \/ Len(analysis.functions) >= GraphNodeLimit(settings)
    \/ Len(analysis.calls) >= GraphEdgeLimit(settings)

\* the Scale Guard of build_graph
UseAggregated(analysis, settings) ==
    \/ Len(analysis.functions) > GraphNodeLimit(settings)
    \/ Len(analysis.calls) > GraphEdgeLimit(settings)

NodeAttrs(type, file, layer, status) ==
    [type |-> type, file |-> file, layer |-> layer, status |-> status, func_count |-> NoInt]

EdgeAttrs(type, weight, risk, direction, status) ==
    [type |-> type, weight |-> weight, risk |-> risk, direction |-> direction,
     status |-> status]

\* "Infer minimal attributes if missing": the function record is changed in place
DefaultFile(func) == IF func.file = NoVal THEN [func EXCEPT !.file = "unknown"] ELSE func

\* a variant of AddFunctionNode: a function without a type is skipped
AddTypedFunctionNode(G, func) ==
    IF func.type = NoVal THEN G
    ELSE AddNode(G, func.name,
                 NodeAttrs(func.type, DefaultFile(func).file, NoVal, func.status))

\* a variant of AddFunctionNode: the node is added before the file is inferred
AddFunctionNodeAsGiven(G, func) ==
    AddNode(G, func.name, NodeAttrs(func.type, func.file, NoVal, func.status))

\* 1. Add Nodes
AddFunctionNode(G, func) ==
    AddNode(G, func.name, NodeAttrs(func.type, DefaultFile(func).file, NoVal, func.status))

\* 2. Add Edges
AddCallEdge(G, call) ==
    IF HasNode(G, call.source) /\ HasNode(G, call.target)
    THEN AddEdge(G, call.source, call.target,
                 EdgeAttrs(call.type, call.weight, NoVal, NoVal, call.status))
    ELSE G

\* the node an override entry adds for an end point that is not a node yet
OverrideNode(G, rel, n) ==
    IF Truthy(n) /\ ~HasNode(G, n)
    THEN AddNode(G, n, NodeAttrs(IF rel.node_type = NoVal THEN "Module" ELSE rel.node_type,
                                 "", IF Truthy(rel.layer) THEN rel.layer ELSE NoVal, NoVal))
    ELSE G

\* the attributes of the edges of an override entry
OverrideEdge(rel) ==
    EdgeAttrs(IF rel.type = NoVal THEN "default" ELSE rel.type,
              IF rel.weight = NoInt THEN 1 ELSE rel.weight,
              IF rel.risk_level = NoVal THEN "low" ELSE rel.risk_level,
              IF rel.direction = NoVal THEN "forward" ELSE rel.direction,
              NoVal)

\* a variant of OverrideEdges: the direction is never expanded
OverrideEdgesForward(G, rel) ==
    IF Truthy(rel.source) /\ Truthy(rel.target)
    THEN AddEdge(G, rel.source, rel.target, OverrideEdge(rel))
    ELSE G

\* the edges of an override entry, both end points being nodes
OverrideEdges(G, rel) ==
    IF Truthy(rel.source) /\ Truthy(rel.target)
    THEN IF rel.direction = "bidirectional"
         THEN AddEdge(AddEdge(G, rel.source, rel.target, OverrideEdge(rel)),
                      rel.target, rel.source, OverrideEdge(rel))
         ELSE AddEdge(G, rel.source, rel.target, OverrideEdge(rel))
    ELSE G

\* 2.1 Add relations.json edges
AddRelation(G, rel) ==
    OverrideEdges(OverrideNode(OverrideNode(G, rel, rel.source), rel, rel.target), rel)

\* iteration over a Python set of strings: the order the interpreter's string
\* hashes give, which is fixed for the life of the process
SetIter(S, hashOrder) == SelectSeq(hashOrder, LAMBDA f : f \in S)

\* 3. "Ensure file nodes exist for all logic nodes"
AddFileNodes(G, hashOrder) ==
    FoldLeft(LAMBDA g, f : IF HasNode(g, f) THEN g
                           ELSE AddNode(g, f, NodeAttrs("File", f, NoVal, NoVal)),
             G,
             SetIter({G.attrs[n].file : n \in {m \in DOMAIN G.attrs : Truthy(G.attrs[m].file)}},
                     hashOrder))

\* "Link Logic to File": one node
LinkToFile(G, n) ==
    IF /\ G.attrs[n].type \notin {"File", "Module"}
       /\ Truthy(G.attrs[n].file)
       /\ HasNode(G, G.attrs[n].file)
    THEN AddEdge(G, G.attrs[n].file, n,
                 EdgeAttrs("contains", NoInt, NoVal, NoVal,
                           IF G.attrs[n].status \in {"added", "removed"}
                           THEN G.attrs[n].status ELSE "unchanged"))
    ELSE G

\* "Link Logic to File": the loop over list(G.nodes(data=True))
LinkFiles(G) == FoldLeft(LinkToFile, G, G.nodes)

\* lines 128-202: the graph of the functions, the calls, the overrides and the files
ConstructGraph(analysis, relations, hashOrder) ==
    LinkFiles(AddFileNodes(FoldLeft(AddRelation,
                                    FoldLeft(AddCallEdge,
                                             FoldLeft(AddFunctionNode, EmptyGraph,
                                                      analysis.functions),
                                             analysis.calls),
                                    relations),
                           hashOrder))

\* a variant of BreakCyclesRun: the end points of the edge to remove are swapped
RECURSIVE BreakCyclesSwapped(_, _)
BreakCyclesSwapped(dag, fuel) ==
    With(FindCycle(dag), LAMBDA r :
        IF r.err \/ ~r.found THEN [dag |-> dag, err |-> r.err, diverged |-> FALSE]
        ELSE IF fuel = 0 THEN [dag |-> dag, err |-> FALSE, diverged |-> TRUE]
        ELSE BreakCyclesSwapped(IF HasEdge(dag, Last(r.cycle)[2], Last(r.cycle)[1])
                                THEN RemoveEdge(dag, Last(r.cycle)[2], Last(r.cycle)[1])
                                ELSE dag,
                                fuel - 1))

\* lines 212-224: "find one cycle, remove its last edge" on the copy, until
\* find_cycle raises.  fuel counts the iterations left before the loop has run
\* more often than the copy has edges, which only a loop that never ends does.
RECURSIVE BreakCyclesRun(_, _)
BreakCyclesRun(dag, fuel) ==
    With(FindCycle(dag), LAMBDA r :
        IF r.err \/ ~r.found THEN [dag |-> dag, err |-> r.err, diverged |-> FALSE]
        ELSE IF fuel = 0 THEN [dag |-> dag, err |-> FALSE, diverged |-> TRUE]
        ELSE BreakCyclesRun(IF HasEdge(dag, Last(r.cycle)[1], Last(r.cycle)[2])
                            THEN RemoveEdge(dag, Last(r.cycle)[1], Last(r.cycle)[2])
                            ELSE dag,
                            fuel - 1))

BreakCycles(G) == BreakCyclesRun(G, NumberOfEdges(G) + 1)

SequenceNumbersFromZero(order) ==
    FoldLeft(LAMBDA m, i : (order[i] :> (i - 1)) @@ m, <<>>, [i \in DOMAIN order |-> i])

\* enumerate(order): node -> i + 1
SequenceNumbers(order) ==
    FoldLeft(LAMBDA m, i : (order[i] :> i) @@ m, <<>>, [i \in DOMAIN order |-> i])

\* lines 204-234 and 469-490: the execution order of the nodes.  fallback: the
\* topological sort raised and the nodes are numbered by ascending in-degree.
ExecutionOrder(G) ==
    With(BreakCycles(G), LAMBDA b :
        With(TopologicalSort(b.dag), LAMBDA t :
            [dag |-> b.dag, diverged |-> b.diverged, fallback |-> ~t.ok,
             execution_map |->
                 IF t.ok THEN SequenceNumbers(t.order)
                 ELSE SequenceNumbers(StableSort(G.nodes, LAMBDA n : InDegree(G, n)))]))

(***************************************************************************)
(* The names of the model.  Python orders strings by code point: the empty *)
(* string first, then '.', digits, upper case and lower case letters.      *)
(***************************************************************************)
\* the functions of one file of a large project
PerFile == 3

\* the files of a project with more contains edges than EDGE_CYCLE_CHECK_LIMIT
LargeFiles == EDGE_CYCLE_CHECK_LIMIT \div PerFile + 1

\* the i-th generated symbol and file name; the numbers have one width
SymName(i) == "s" \o ToString(1000 + i)

FileName(i) == "g" \o ToString(1000 + i)

SmallNames == <<"", "X", "Y", "a", "b", "c", "cv2.blur", "f1", "f2",
                "m.<main>", "m.C.b", "m.a", "m.b", "n.<main>", "n.a", "root", "unknown">>

Names ==
    <<"", "X", "Y", "a", "b", "c", "cv2.blur", "f1", "f2">>
    \o [i \in 1..LargeFiles |-> FileName(i)]
    \o <<"m.<main>", "m.C.b", "m.a", "m.b", "n.<main>", "n.a", "root">>
    \o [i \in 1..(LargeFiles * PerFile) |-> SymName(i)]
    \o <<"unknown">>

\* str(n) as a sort key
StrKey(n) == IndexIn(Names, n)

(***************************************************************************)
(* _compute_layered_layout                                                 *)
(***************************************************************************)
\* lines 380-385: remove_edge raises for an edge that is not there, and any
\* exception ends the loop
RECURSIVE LayoutBreakCycles(_)
LayoutBreakCycles(dag) ==
    With(FindCycle(dag), LAMBDA r :
        IF r.err \/ ~r.found \/ ~HasEdge(dag, Last(r.cycle)[1], Last(r.cycle)[2]) THEN dag
        ELSE LayoutBreakCycles(RemoveEdge(dag, Last(r.cycle)[1], Last(r.cycle)[2])))

\* lines 374-377: the edges that go back in the execution order
BackEdges(G, execution_map) ==
    {e \in DOMAIN G.eattrs : Get(execution_map, e[1], 0) >= Get(execution_map, e[2], 0)}

\* lines 395-401: the fallback, one bucket per BUCKET_SIZE sequence numbers
Buckets(G, execution_map) ==
    With(Ascending({Get(execution_map, n, 0) \div BUCKET_SIZE : n \in DOMAIN G.attrs}),
         LAMBDA cols :
             [k \in DOMAIN cols |->
                 SelectSeq(G.nodes,
                           LAMBDA n : Get(execution_map, n, 0) \div BUCKET_SIZE = cols[k])])

\* a variant of LayoutGenerations: the fallback buckets are always taken
\* lines 369-385: the copy without the back edges and without cycles
LayoutDag(G, execution_map) ==
    LayoutBreakCycles(IF DOMAIN execution_map # {}
                      THEN RemoveEdges(G, BackEdges(G, execution_map))
                      ELSE G)

LayoutBuckets(G, execution_map) == Buckets(G, execution_map)

\* lines 366-401: the columns
LayoutGenerations(G, execution_map) ==
    With(TopologicalGenerations(LayoutDag(G, execution_map)),
         LAMBDA t : IF t.ok THEN t.gens ELSE Buckets(G, execution_map))

\* line 408
MaxColHeight(generations) ==
    IF generations = <<>> THEN 0
    ELSE MaxOf({Len(generations[c]) : c \in DOMAIN generations}) * ROW_HEIGHT

\* lines 417-430: one column, its nodes sorted already
PlaceColumn(pos, max_col_height, col_idx, nodes) ==
    FoldLeft(LAMBDA p, row :
                 (nodes[row + 1] :>
                     <<col_idx * COLUMN_WIDTH + (IF row % 2 = 1 THEN STAGGER ELSE 0),
                       ((max_col_height - Len(nodes) * ROW_HEIGHT) \div 2) + row * ROW_HEIGHT>>)
                 @@ p,
             pos, [r \in DOMAIN nodes |-> r - 1])

\* lines 403-432: node -> <<x, y>>
AssignCoordinates(generations) ==
    FoldLeft(LAMBDA pos, c :
                 PlaceColumn(pos, MaxColHeight(generations), c - 1,
                             StableSort(generations[c], StrKey)),
             <<>>, [c \in DOMAIN generations |-> c])

ComputeLayeredLayout(G, execution_map) ==
    AssignCoordinates(LayoutGenerations(G, execution_map))

\* G after lines 206-234 and 469-490: the edges are removed from dag = G.copy()
AfterOrdering(G, ord) == AfterRemovals(CopyGraph(G), ord.dag)

\* G after _compute_layered_layout: the edges are removed from dag = G.copy()
AfterLayout(G, execution_map) == AfterRemovals(CopyGraph(G), LayoutDag(G, execution_map))

(***************************************************************************)
(* build_graph: serialization                                              *)
(***************************************************************************)
\* a variant of CycleEdges: the cycles are enumerated whatever the edge count
CycleEdgesAlways(G) ==
    UNION {{<<cyc[i], cyc[(i % Len(cyc)) + 1]>> : i \in DOMAIN cyc} :
           cyc \in SimpleCycles(G, G.nodes)}

\* a variant of CycleEdges: the comparison with the limit is inverted
CycleEdgesAbove(G) ==
    IF NumberOfEdges(G) >= EDGE_CYCLE_CHECK_LIMIT
    THEN UNION {{<<cyc[i], cyc[(i % Len(cyc)) + 1]>> : i \in DOMAIN cyc} :
                cyc \in SimpleCycles(G, G.nodes)}
    ELSE {}

\* lines 297-316: the edges of the enumerated cycles
CycleEdges(G) ==
    IF NumberOfEdges(G) <= EDGE_CYCLE_CHECK_LIMIT
    THEN UNION {{<<cyc[i], cyc[(i % Len(cyc)) + 1]>> : i \in DOMAIN cyc} :
                cyc \in SimpleCycles(G, G.nodes)}
    ELSE {}

\* lines 244-248: the smallest k-th coordinate
MinCoordinate(pos, k) ==
    IF DOMAIN pos = {} THEN 0 ELSE MinOf({pos[n][k] : n \in DOMAIN pos})

\* lines 254-292: one output node
SerializeNode(G, execution_map, index, n, x, y) ==
    [id |-> index,
     title |-> n,
     x |-> x,
     y |-> y,
     type |-> TypeOf(G.attrs[n]),
     physical |-> ClassifyNode(n, G.attrs[n])[3],
     logical |-> ClassifyNode(n, G.attrs[n])[2],
     file |-> IF G.attrs[n].file = NoVal THEN "" ELSE G.attrs[n].file,
     func_count |-> NoInt,
     status |-> IF G.attrs[n].status = NoVal THEN "unchanged" ELSE G.attrs[n].status,
     exec_seq |-> Get(execution_map, n, 0)]

\* a variant of SerializeNodes: the ids are counted from 1
SerializeNodesFromOne(G, pos, execution_map) ==
    With(SelectSeq(G.nodes, LAMBDA n : n \in DOMAIN pos), LAMBDA placed :
        With(MinCoordinate(pos, 1), LAMBDA min_x :
            With(MinCoordinate(pos, 2), LAMBDA min_y :
                List([i \in DOMAIN placed |->
                        SerializeNode(G, execution_map, i, placed[i],
                                      pos[placed[i]][1] - min_x + ORIGIN_OFFSET,
                                      pos[placed[i]][2] - min_y + ORIGIN_OFFSET)]))))

\* a variant of SerializeNodes: the positions are serialized as computed
SerializeNodesAsPlaced(G, pos, execution_map) ==
    With(SelectSeq(G.nodes, LAMBDA n : n \in DOMAIN pos), LAMBDA placed :
        List([i \in DOMAIN placed |->
                SerializeNode(G, execution_map, i - 1, placed[i],
                              pos[placed[i]][1], pos[placed[i]][2])]))

\* lines 239-295: the output nodes, in node order, numbered from 0
SerializeNodes(G, pos, execution_map) ==
    With(SelectSeq(G.nodes, LAMBDA n : n \in DOMAIN pos), LAMBDA placed :
        With(MinCoordinate(pos, 1), LAMBDA min_x :
            With(MinCoordinate(pos, 2), LAMBDA min_y :
                List([i \in DOMAIN placed |->
                        SerializeNode(G, execution_map, i - 1, placed[i],
                                      pos[placed[i]][1] - min_x + ORIGIN_OFFSET,
                                      pos[placed[i]][2] - min_y + ORIGIN_OFFSET)]))))

\* node_id_map: node name -> output id
NodeIdMap(nodes) ==
    FoldLeft(LAMBDA m, node : (node.title :> node.id) @@ m, <<>>, nodes)

\* lines 324-340: the type of an output edge
EdgeType(u_phy, v_phy, is_cycle, data) ==
    IF is_cycle THEN "cycle"
    ELSE IF u_phy = "INPUT_SOURCE" /\ v_phy = "PROCESSING" THEN "data_flow"
    ELSE IF u_phy = "PROCESSING" /\ v_phy = "COMPUTATION" THEN "data_flow"
    ELSE IF u_phy = "COMPUTATION" /\ v_phy = "OUTPUT" THEN "data_flow"
    ELSE IF data.type = "module_flow" THEN "module_flow"
    ELSE IF data.type = "contains" THEN "contains"
    ELSE "default"

\* a variant of SerializeEdge: the risk of a cycle edge is left as given
SerializeEdgeKeepRisk(G, ids, cycle_edges, e) ==
    [source |-> ids[e[1]],
     target |-> ids[e[2]],
     type |-> EdgeType(ClassifyNode(e[1], G.attrs[e[1]])[3],
                       ClassifyNode(e[2], G.attrs[e[2]])[3],
                       e \in cycle_edges, G.eattrs[e]),
     weight |-> IF G.eattrs[e].weight = NoInt THEN 1 ELSE G.eattrs[e].weight,
     risk |-> IF G.eattrs[e].risk = NoVal THEN "low" ELSE G.eattrs[e].risk,
     status |-> IF G.eattrs[e].status = NoVal THEN "unchanged" ELSE G.eattrs[e].status]

\* lines 318-354: one output edge
SerializeEdge(G, ids, cycle_edges, e) ==
    [source |-> ids[e[1]],
     target |-> ids[e[2]],
     type |-> EdgeType(ClassifyNode(e[1], G.attrs[e[1]])[3],
                       ClassifyNode(e[2], G.attrs[e[2]])[3],
                       e \in cycle_edges, G.eattrs[e]),
     weight |-> IF G.eattrs[e].weight = NoInt THEN 1 ELSE G.eattrs[e].weight,
     risk |-> IF e \in cycle_edges THEN "high"
              ELSE IF G.eattrs[e].risk = NoVal THEN "low" ELSE G.eattrs[e].risk,
     status |-> IF G.eattrs[e].status = NoVal THEN "unchanged" ELSE G.eattrs[e].status]

SerializeEdges(G, ids) ==
    With(CycleEdges(G), LAMBDA cycle_edges :
        With(SelectSeq(EdgesOf(G), LAMBDA e : e[1] \in DOMAIN ids /\ e[2] \in DOMAIN ids),
             LAMBDA kept :
                 List([i \in DOMAIN kept |-> SerializeEdge(G, ids, cycle_edges, kept[i])])))

\* build_graph below the Scale Guard (lines 119-356).  The record keeps the
\* graph, the cycle-broken copy and the positions next to the returned data.
\* build_graph from line 204 on, for the graph of lines 128-202
OrderAndSerialize(built, ord) ==
    With(AfterOrdering(built, ord), LAMBDA ordered :
        With(ComputeLayeredLayout(ordered, ord.execution_map), LAMBDA pos :
            With(AfterLayout(ordered, ord.execution_map), LAMBDA G :
                With(SerializeNodes(G, pos, ord.execution_map), LAMBDA nodes :
                    [mode |-> "full", built |-> built, G |-> G, dag |-> ord.dag,
                     diverged |-> ord.diverged,
                     fallback |-> ord.fallback, execution_map |-> ord.execution_map,
                     pos |-> pos, nodes |-> nodes,
                     edges |-> SerializeEdges(G, NodeIdMap(nodes)),
                     meta |-> NoVal]))))

BuildFullGraph(analysis, relations, hashOrder) ==
    With(ConstructGraph(analysis, relations, hashOrder),
         LAMBDA built : OrderAndSerialize(built, ExecutionOrder(built)))

(***************************************************************************)
(* _build_aggregated_file_graph                                            *)
(***************************************************************************)
\* f.get("file", "unknown")
FilePath(func) == IF func.file = NoVal THEN "unknown" ELSE func.file

\* os.path.basename on the file names of the model, which hold no separator
Basename(path) == path

\* func_to_file: the file of the last record of every function name
FuncToFile(funcs) ==
    [name \in {funcs[i].name : i \in DOMAIN funcs} |->
        FilePath(funcs[MaxOf({i \in DOMAIN funcs : funcs[i].name = name})])]

\* the file of every function record, in list order
FilePaths(funcs) == List([i \in DOMAIN funcs |-> FilePath(funcs[i])])

\* lines 452-460: the (s, t) key of every call that counts
FileKeys(analysis) ==
    With(FuncToFile(analysis.functions), LAMBDA func_to_file :
        SelectSeq([i \in DOMAIN analysis.calls |->
                      <<Get(func_to_file, analysis.calls[i].source, NoVal),
                        Get(func_to_file, analysis.calls[i].target, NoVal)>>],
                  LAMBDA k : Truthy(k[1]) /\ Truthy(k[2]) /\ k[1] # k[2]))

\* lines 464-465: one node per file, with the number of its function records
FileNodes(paths) ==
    FoldLeft(LAMBDA g, fp :
                 AddNode(g, fp, [NodeAttrs("File", fp, NoVal, NoVal) EXCEPT
                                     !.func_count = Cardinality({i \in DOMAIN paths :
                                                                    paths[i] = fp})]),
             EmptyGraph, KeysInOrder(paths))

\* lines 441-467: the graph of the files
ConstructFileGraph(analysis) ==
    With(FileKeys(analysis), LAMBDA keys :
        FoldLeft(LAMBDA g, k :
                     AddEdge(g, k[1], k[2],
                             EdgeAttrs("file_flow",
                                       Cardinality({i \in DOMAIN keys : keys[i] = k}),
                                       NoVal, NoVal, NoVal)),
                 FileNodes(FilePaths(analysis.functions)), KeysInOrder(keys)))

\* lines 499-519: one output node
SerializeFileNode(Gf, execution_map, index, n, p) ==
    [id |-> index,
     title |-> IF n # "" THEN Basename(n) ELSE "unknown",
     x |-> p[1] + ORIGIN_OFFSET,
     y |-> p[2] + ORIGIN_OFFSET,
     type |-> "File",
     physical |-> "OTHER",
     logical |-> LOGIC_LAYERS["FILE"],
     file |-> n,
     func_count |-> Gf.attrs[n].func_count,
     status |-> NoVal,
     exec_seq |-> Get(execution_map, n, 0)]

\* lines 520-532: one output edge
SerializeFileEdge(Gf, e) ==
    [source |-> IndexIn(Gf.nodes, e[1]) - 1,
     target |-> IndexIn(Gf.nodes, e[2]) - 1,
     type |-> "file_flow",
     weight |-> Gf.eattrs[e].weight,
     risk |-> "low",
     status |-> "unchanged"]

\* the returned data of the aggregated mode
SerializeFileGraph(built, Gf, ord, pos, edges) ==
    [mode |-> "aggregated_file", built |-> built, G |-> Gf, dag |-> ord.dag, diverged |-> ord.diverged,
     fallback |-> ord.fallback, execution_map |-> ord.execution_map, pos |-> pos,
     nodes |-> List([i \in DOMAIN Gf.nodes |->
                       SerializeFileNode(Gf, ord.execution_map, i - 1, Gf.nodes[i],
                                         Get(pos, Gf.nodes[i], <<0, 0>>))]),
     edges |-> List([i \in DOMAIN edges |-> SerializeFileEdge(Gf, edges[i])]),
     meta |-> [mode |-> "aggregated_file", file_count |-> Len(Gf.nodes),
               edge_count |-> NumberOfEdges(Gf)]]

\* _build_aggregated_file_graph (lines 434-534)
BuildAggregatedFileGraph(analysis) ==
    With(ConstructFileGraph(analysis), LAMBDA built :
        With(ExecutionOrder(built), LAMBDA ord :
            With(AfterOrdering(built, ord), LAMBDA ordered :
                With(AfterLayout(ordered, ord.execution_map), LAMBDA Gf :
                    SerializeFileGraph(built, Gf, ord,
                                       ComputeLayeredLayout(ordered, ord.execution_map),
                                       EdgesOf(Gf))))))

\* build_graph: the returned data (with the graphs it was made from)
BuildGraphDataBelow(analysis, relations, settings, hashOrder) ==
    IF UseAggregated(analysis, settings) THEN [mode |-> NoVal]
    ELSE BuildFullGraph(analysis, relations, hashOrder)

\* build_graph, lines 109-117 and what follows; an analysis with a functions
\* and a calls list is not falsy
BuildGraphData(analysis, relations, settings, hashOrder) ==
    IF UseAggregated(analysis, settings)
    THEN BuildAggregatedFileGraph(analysis)
    ELSE BuildFullGraph(analysis, relations, hashOrder)

\* build_graph: the caller's analysis_result after the call
AnalysisAfterBuild(analysis, settings) ==
    IF UseAggregated(analysis, settings) THEN analysis
    ELSE [analysis EXCEPT !.functions = List([i \in DOMAIN @ |-> DefaultFile(@[i])])]

(***************************************************************************)
(* AIGraphOptimizer                                                        *)
(***************************************************************************)
STRICT_MIN_DIST_X == 100

STRICT_MIN_DIST_Y == 80

\* execute, lines 30-39: the nodes of the context
ContextNodes(context) ==
    FoldLeft(LAMBDA g, n :
                 AddNode(g, n.id, [width |-> n.width, height |-> n.height,
                                   x |-> n.x, y |-> n.y, locked |-> n.locked]),
             EmptyGraph, context.nodes)

\* execute, lines 26-45: the graph of the context
ContextGraph(context) ==
    FoldLeft(LAMBDA g, e :
                 IF HasNode(g, e.source) /\ HasNode(g, e.target)
                 THEN AddEdge(g, e.source, e.target, [weight |-> NoInt]) ELSE g,
             ContextNodes(context), context.edges)

\* the edge remove_edge(cycle[-1], cycle[0]) removes
ClosingEdge(cyc) == <<Last(cyc), cyc[1]>>

\* _layout_layered_strict, lines 78-88: the copy without the closing edges;
\* remove_edge raises when an earlier cycle has removed the edge already,
\* and the layout goes on with G
StrictDag(G, cycles) ==
    IF \E c1, c2 \in cycles : c1 # c2 /\ ClosingEdge(c1) = ClosingEdge(c2) THEN G
    ELSE RemoveEdges(G, {ClosingEdge(cyc) : cyc \in cycles})

\* lines 90-95: the layers
StrictLayers(G, roots) ==
    With(TopologicalGenerations(StrictDag(G, SimpleCycles(G, roots))),
         LAMBDA t : IF t.ok THEN t.gens ELSE <<G.nodes>>)

\* lines 111-121: the nodes of one layer
StrictPlaceNode(G, current_x, col, nid) ==
    [max_w |-> IF G.attrs[nid].width > col.max_w THEN G.attrs[nid].width ELSE col.max_w,
     current_y |-> col.current_y + G.attrs[nid].height + STRICT_MIN_DIST_Y,
     updates |-> (nid :> [x |-> current_x, y |-> col.current_y]) @@ col.updates]

\* lines 123-124: "Move X pointer"
StrictNextLayer(acc, col) ==
    [current_x |-> acc.current_x + col.max_w + STRICT_MIN_DIST_X, updates |-> col.updates]

\* lines 107-124: one layer
StrictPlaceLayer(G, acc, layer_nodes) ==
    StrictNextLayer(acc,
        FoldLeft(LAMBDA col, nid : StrictPlaceNode(G, acc.current_x, col, nid),
                 [max_w |-> 0, current_y |-> 0, updates |-> acc.updates],
                 layer_nodes))

\* _layout_layered_strict: node -> [x, y]
\* lines 78-88: G after the cycle breaking of _layout_layered_strict
StrictAfter(G, cycles) ==
    AfterRemovals(IF cycles # {} THEN CopyGraph(G) ELSE ShareGraph(G), StrictDag(G, cycles))

LayoutLayeredStrict(G, roots) ==
    FoldLeft(LAMBDA acc, layer : StrictPlaceLayer(G, acc, layer),
             [current_x |-> 0, updates |-> <<>>], StrictLayers(G, roots)).updates

(***************************************************************************)
(* Exact arithmetic for the y coordinates of _layout_hybrid: a number is   *)
(* a reduced fraction [n, d] with d > 0.                                   *)
(***************************************************************************)
Abs(i) == IF i < 0 THEN 0 - i ELSE i

RECURSIVE Gcd(_, _)
Gcd(a, b) == IF b = 0 THEN a ELSE Gcd(b, a % b)

\* n / d, reduced, for d > 0
Reduced(n, d, g) == [n |-> n \div g, d |-> d \div g]

Frac(n, d) == Reduced(n, d, Gcd(Abs(n), d))

FracAdd(a, b) == Frac(a.n * b.d + b.n * a.d, a.d * b.d)

FracSub(a, b) == Frac(a.n * b.d - b.n * a.d, a.d * b.d)

FracDiv(a, k) == Frac(a.n, a.d * k)

FracLess(a, b) == a.n * b.d < b.n * a.d

\* list.sort(key=...) on keys that are fractions: stable
SortByFrac(s, Key(_)) ==
    With(List([i \in DOMAIN s |-> Key(s[i])]), LAMBDA keys :
        With(List([i \in DOMAIN s |->
                      Cardinality({j \in DOMAIN s :
                                      \/ FracLess(keys[j], keys[i])
                                      \/ (~FracLess(keys[i], keys[j]) /\ j < i)}) + 1]),
             LAMBDA r : List([k \in DOMAIN s |-> s[CHOOSE i \in DOMAIN s : r[i] = k]])))

(***************************************************************************)
(* AIGraphOptimizer._layout_hybrid                                         *)
(***************************************************************************)
HYBRID_MIN_DIST_X == 150

HYBRID_MIN_DIST_Y == 80

\* lines 137-144: remove the last edge of a cycle from the copy until
\* find_cycle raises
RECURSIVE HybridDag(_)
HybridDag(dag) ==
    With(FindCycle(dag), LAMBDA r :
        IF r.err \/ ~r.found THEN dag
        ELSE HybridDag(RemoveEdge(dag, Last(r.cycle)[1], Last(r.cycle)[2])))

HybridLayersFlat(G) == <<G.nodes>>

\* lines 136-144: G after the cycle breaking of _layout_hybrid
HybridAfter(G) == AfterRemovals(CopyGraph(G), HybridDag(G))

\* lines 135-149: the layers
HybridLayers(G) ==
    With(TopologicalGenerations(HybridDag(G)),
         LAMBDA t : IF t.ok THEN t.gens ELSE <<G.nodes>>)

\* lines 163-167: the width of a layer
LayerWidth(G, layer) == MaxOf({0} \cup {G.attrs[layer[i]].width : i \in DOMAIN layer})

\* a variant of HybridX: the columns are as far apart as the strict layout's
HybridXNarrow(G, layers) ==
    FoldLeft(LAMBDA acc, layer :
                 [current_x |-> acc.current_x + LayerWidth(G, layer) + STRICT_MIN_DIST_X,
                  node_x |-> [n \in Range(layer) |-> acc.current_x] @@ acc.node_x],
             [current_x |-> 0, node_x |-> <<>>], layers).node_x

\* lines 169-176: node -> x
HybridX(G, layers) ==
    FoldLeft(LAMBDA acc, layer :
                 [current_x |-> acc.current_x + LayerWidth(G, layer) + HYBRID_MIN_DIST_X,
                  node_x |-> [n \in Range(layer) |-> acc.current_x] @@ acc.node_x],
             [current_x |-> 0, node_x |-> <<>>], layers).node_x

\* lines 218-220: preds + succs
Neighbors(G, n) ==
    SelectSeq(G.nodes, LAMBDA m : HasEdge(G, m, n)) \o G.succ[n]

\* lines 225-228: the y a node is moved to
Barycenter(node_y, n, neighbors) ==
    FracAdd(FracDiv(node_y[n], 2),
            FracDiv(FracDiv(FoldLeft(LAMBDA sum, nbr : FracAdd(sum, node_y[nbr]),
                                     Frac(0, 1), neighbors),
                            Len(neighbors)),
                    2))

\* lines 212-228: the barycenter step
Relax(G, locked_nodes, node_y) ==
    [n \in DOMAIN node_y |->
        IF n \in locked_nodes \/ Neighbors(G, n) = <<>> THEN node_y[n]
        ELSE Barycenter(node_y, n, Neighbors(G, n))]

PushApartBoth(locked_nodes, new_y, u, v, diff) ==
    [new_y EXCEPT ![u] = FracSub(@, FracDiv(diff, 2)), ![v] = FracAdd(@, FracDiv(diff, 2))]

\* lines 244-260: two neighbours of a column that are too close
PushApart(locked_nodes, new_y, u, v, diff) ==
    IF u \in locked_nodes /\ v \in locked_nodes THEN new_y
    ELSE IF u \in locked_nodes THEN [new_y EXCEPT ![v] = FracAdd(@, diff)]
    ELSE IF v \in locked_nodes THEN [new_y EXCEPT ![u] = FracSub(@, diff)]
    ELSE [new_y EXCEPT ![u] = FracSub(@, FracDiv(diff, 2)),
                       ![v] = FracAdd(@, FracDiv(diff, 2))]

\* lines 238-260: one pair of neighbours of a column
Space(G, locked_nodes, new_y, u, v) ==
    With(FracSub(FracAdd(Frac(G.attrs[u].height + G.attrs[v].height, 2),
                         Frac(HYBRID_MIN_DIST_Y, 1)),
                 FracSub(new_y[v], new_y[u])),
         LAMBDA diff : IF diff.n > 0 THEN PushApart(locked_nodes, new_y, u, v, diff)
                       ELSE new_y)

\* lines 237-260: the sweep over one column, sorted already
SpaceLayer(G, locked_nodes, new_y, layer) ==
    FoldLeft(LAMBDA y, i : Space(G, locked_nodes, y, layer[i], layer[i + 1]),
             new_y, [i \in 1..(Len(layer) - 1) |-> i])

\* line 234: every column sorted by the y of its nodes
SortLayers(layers, new_y) ==
    List([k \in DOMAIN layers |-> SortByFrac(layers[k], LAMBDA n : new_y[n])])

\* lines 232-260: collision resolution, the columns sorted already
SpaceLayers(G, locked_nodes, layers, new_y) ==
    [layers |-> layers,
     node_y |-> FoldLeft(LAMBDA y, layer : SpaceLayer(G, locked_nodes, y, layer),
                         new_y, layers)]

\* a dict of node -> y, every value computed
Dict(G, node_y) ==
    FoldLeft(LAMBDA d, n : (n :> node_y[n]) @@ d, <<>>, G.nodes)

\* lines 207-262: one iteration
Pass(G, locked_nodes, st) ==
    With(Dict(G, Relax(G, locked_nodes, st.node_y)), LAMBDA new_y :
        With(SortLayers(st.layers, new_y), LAMBDA layers :
            [layers |-> layers,
             node_y |-> Dict(G, SpaceLayers(G, locked_nodes, layers, new_y).node_y)]))

\* lines 205-262: the iterations.  A pass is a function of the columns and
\* the ys alone, so after a pass that has changed nothing the passes left
\* change nothing either, and they are not computed.
RECURSIVE Iterate(_, _, _, _)
Iterate(G, locked_nodes, st, iterations) ==
    IF iterations = 0 THEN st
    ELSE With(Pass(G, locked_nodes, st), LAMBDA next :
             IF next = st THEN st
             ELSE Iterate(G, locked_nodes, next, iterations - 1))

\* lines 264-268: node -> [x, y]
HybridUpdates(G, node_x, node_y) ==
    [n \in DOMAIN G.attrs |-> [x |-> node_x[n], y |-> node_y[n]]]

\* _layout_hybrid
LayoutHybrid(G, locked_nodes, iterations) ==
    With(HybridLayers(G), LAMBDA layers :
        HybridUpdates(G, HybridX(G, layers),
                      Iterate(G, locked_nodes,
                              [layers |-> layers,
                               node_y |-> [n \in DOMAIN G.attrs |-> Frac(G.attrs[n].y, 1)]],
                              iterations).node_y))

\* execute, lines 28-39: locked_nodes
LockedNodes(context) ==
    {context.nodes[i].id : i \in {j \in DOMAIN context.nodes : context.nodes[j].locked}}

\* a variant of Strategy: 50 nodes are a medium graph
StrategyFromFifty(node_count) ==
    IF node_count > 200
    THEN [method |-> "Strict Layered (Performance)", iterations |-> NoInt]
    ELSE IF node_count >= 50
    THEN [method |-> "Hybrid Layered (Barnes-Hut)", iterations |-> 50]
    ELSE [method |-> "Hybrid Layered (High Precision)", iterations |-> 100]

\* execute, lines 50-64: Strategy Selection
Strategy(node_count) ==
    IF node_count > 200
    THEN [method |-> "Strict Layered (Performance)", iterations |-> NoInt]
    ELSE IF node_count > 50
    THEN [method |-> "Hybrid Layered (Barnes-Hut)", iterations |-> 50]
    ELSE [method |-> "Hybrid Layered (High Precision)", iterations |-> 100]

\* execute: the returned status, the strategy taken and the updates
Execute(context, hashOrder) ==
    IF context.nodes = <<>>
    THEN [status |-> "skipped", method |-> NoVal, iterations |-> NoInt, updates |-> <<>>]
    ELSE With(Strategy(Len(context.nodes)), LAMBDA s :
             [status |-> "success", method |-> s.method, iterations |-> s.iterations,
              updates |->
                  IF s.iterations = NoInt
                  THEN LayoutLayeredStrict(ContextGraph(context),
                                           SetIter(DOMAIN ContextGraph(context).attrs,
                                                   hashOrder))
                  ELSE LayoutHybrid(ContextGraph(context), LockedNodes(context),
                                    s.iterations)])

(***************************************************************************)
(* ProjectCodeAnalyzer.analyze_project: call resolution                    *)
(***************************************************************************)
EXTERNAL_KINDS == {"mq_pub", "mq_sub", "api_call", "db_access"}

\* the part of a qualified name after its last dot
LocalName == ("m.a" :> "a") @@ ("m.b" :> "b") @@ ("n.a" :> "a") @@ ("m.C.b" :> "b")

\* k.endswith(f".{target}") or k == target
SuffixMatch(k, target) == (k \in DOMAIN LocalName /\ LocalName[k] = target) \/ k = target

\* lines 67-78: the symbol a call target resolves to, NoVal for none
ResolveTarget(keys, target) ==
    IF Has(keys, target) THEN target
    ELSE IF \E i \in DOMAIN keys : SuffixMatch(keys[i], target)
    THEN keys[MinOf({i \in DOMAIN keys : SuffixMatch(keys[i], target)})]
    ELSE NoVal

\* a call record of the analysis
CallRecord(source, target, type, weight) ==
    [source |-> source, target |-> target, type |-> type, weight |-> weight,
     status |-> NoVal]

\* lines 80-86: the calls kept with their own record
ExternalCalls(keys, calls) ==
    SelectSeq([i \in DOMAIN calls |->
                  CallRecord(calls[i].source, calls[i].target, calls[i].type, NoInt)],
              LAMBDA c : ~Truthy(ResolveTarget(keys, c.target)) /\ c.type \in EXTERNAL_KINDS)

\* lines 80-82: the (source, resolved target) key of every resolved call
ResolvedKeys(keys, calls) ==
    SelectSeq([i \in DOMAIN calls |->
                  <<calls[i].source, ResolveTarget(keys, calls[i].target)>>],
              LAMBDA k : Truthy(k[2]))

\* a variant of CountedCalls: every key counts once
CountedCallsOnce(resolved) ==
    With(KeysInOrder(resolved), LAMBDA order :
        List([j \in DOMAIN order |-> CallRecord(order[j][1], order[j][2], NoVal, 1)]))

\* lines 88-93: one call per key of call_counts, with its count
CountedCalls(resolved) ==
    With(KeysInOrder(resolved), LAMBDA order :
        List([j \in DOMAIN order |->
                CallRecord(order[j][1], order[j][2], NoVal,
                           Cardinality({i \in DOMAIN resolved : resolved[i] = order[j]}))]))

\* lines 58-93: resolved_calls
ResolveCalls(keys, calls) ==
    ExternalCalls(keys, calls) \o CountedCalls(ResolvedKeys(keys, calls))

\* a function record of the analysis
FunctionRecord(name, file, type) ==
    [name |-> name, file |-> file, type |-> type, status |-> NoVal]

\* lines 110-129: the function list
ProjectFunctions(symbol_table) ==
    With(SelectSeq(symbol_table, LAMBDA info : info.type \in {"Function", "Method"}),
         LAMBDA kept :
             List([i \in DOMAIN kept |->
                     FunctionRecord(kept[i].name, kept[i].file,
                                    IF Truthy(kept[i].api_route) THEN "API_Route"
                                    ELSE kept[i].type)]))

\* analyze_project after the scan of the files
AnalysisOf(project) ==
    [functions |-> ProjectFunctions(project.symbol_table),
     calls |-> ResolveCalls(List([i \in DOMAIN project.symbol_table |->
                                    project.symbol_table[i].name]),
                            project.calls)]

(***************************************************************************)
(* GitAnalyzer._merge_analyses                                             *)
(***************************************************************************)
\* {n["name"]: n for n in functions}: the last record of a name
NodeNamed(funcs, name) == funcs[MaxOf({i \in DOMAIN funcs : funcs[i].name = name})]

NodeNames(funcs) == {funcs[i].name : i \in DOMAIN funcs}

\* {(e["source"], e["target"]): e for e in calls}: the last record of a key
EdgeKeyed(calls, k) ==
    calls[MaxOf({i \in DOMAIN calls : <<calls[i].source, calls[i].target>> = k})]

EdgeKeys(calls) == {<<calls[i].source, calls[i].target>> : i \in DOMAIN calls}

\* a variant of MergeNode: the two one-sided statuses are swapped
MergeNodeSwapped(curr, prev, name) ==
    IF name \in NodeNames(curr) /\ name \notin NodeNames(prev)
    THEN [NodeNamed(curr, name) EXCEPT !.status = "removed"]
    ELSE IF name \in NodeNames(prev) /\ name \notin NodeNames(curr)
    THEN [NodeNamed(prev, name) EXCEPT !.status = "added"]
    ELSE [NodeNamed(curr, name) EXCEPT !.status = "unchanged"]

\* lines 91-105: one merged node
MergeNode(curr, prev, name) ==
    IF name \in NodeNames(curr) /\ name \notin NodeNames(prev)
    THEN [NodeNamed(curr, name) EXCEPT !.status = "added"]
    ELSE IF name \in NodeNames(prev) /\ name \notin NodeNames(curr)
    THEN [NodeNamed(prev, name) EXCEPT !.status = "removed"]
    ELSE [NodeNamed(curr, name) EXCEPT !.status = "unchanged"]

\* lines 114-128: one merged edge
MergeEdge(curr, prev, k) ==
    IF k \in EdgeKeys(curr) /\ k \notin EdgeKeys(prev)
    THEN [EdgeKeyed(curr, k) EXCEPT !.status = "added"]
    ELSE IF k \in EdgeKeys(prev) /\ k \notin EdgeKeys(curr)
    THEN [EdgeKeyed(prev, k) EXCEPT !.status = "removed"]
    ELSE [EdgeKeyed(curr, k) EXCEPT !.status = "unchanged"]

\* _merge_analyses; node_order and edge_order are the orders in which the two
\* sets all_node_names and all_edges are iterated
MergeAnalyses(curr, prev, node_order, edge_order) ==
    [functions |-> List([i \in DOMAIN node_order |->
                           MergeNode(curr.functions, prev.functions, node_order[i])]),
     calls |-> List([i \in DOMAIN edge_order |->
                       MergeEdge(curr.calls, prev.calls, edge_order[i])])]

\* the orders in which a set can be iterated
Orderings(S) == {s \in [1..Cardinality(S) -> S] : Range(s) = S}

(***************************************************************************)
(* The state: the symbol table and the raw calls of the scanned project,   *)
(* the analyses of the two commits of a diff, the analysis result handed   *)
(* to build_graph, the override list of relations.json, the user's         *)
(* settings, the interpreter's string hash order, the data the last two    *)
(* calls of build_graph returned, the scene handed to the layout optimizer *)
(* and the positions it returned.  pc is the stage of the pipeline:        *)
(* "parsed" (files scanned), "snapshots" (two commits analysed), "ready"   *)
(* (analysis result at hand), "built", "rebuilt", "scene", "placed".       *)
(***************************************************************************)
VARIABLES project, current, previous, analysis, relations, settings, hashOrder,
          graph, prevGraph, pc, context, updates, analyzer, workers

vars == <<project, current, previous, analysis, relations, settings, hashOrder,
          graph, prevGraph, pc, context, updates, analyzer, workers>>

\* the longest list of calls (and of scene edges) drawn as an input
MaxCalls == 3

\* the longest override list drawn as an input
MaxRels == 2

\* the longest list of raw calls drawn as an input
MaxRaw == 2

\* the symbols of the project of the Scale Guard scenario
ManySymbols == 700

Syms == {"a", "b", "c"}

Func(name, file, type) == FunctionRecord(name, file, type)

Call(source, target) == CallRecord(source, target, NoVal, 1)

Rel(source, target, direction) ==
    [source |-> source, target |-> target, type |-> NoVal, weight |-> NoInt,
     risk_level |-> NoVal, layer |-> NoVal, direction |-> direction, node_type |-> NoVal]

Sym(name, file, type, api_route) ==
    [name |-> name, file |-> file, type |-> type, api_route |-> api_route]

RawCall(source, target, type) == [source |-> source, target |-> target, type |-> type]

(***************************************************************************)
(* ProjectCodeAnalyzer.analyze_project: the scan of the files              *)
(***************************************************************************)
\* what a parser returns for a file it cannot parse: None
NoParse == [parsed |-> FALSE, functions |-> <<>>, classes |-> <<>>, calls |-> <<>>]

\* PythonParser.parse: ast.parse or the visitor raising is caught
PythonParse(file) ==
    IF file.kind \in {"syntax_error", "too_deep"} THEN NoParse
    ELSE [parsed |-> TRUE, functions |-> file.functions, classes |-> file.classes,
          calls |-> file.calls]

FileAnalysisPartial(file) ==
    [parsed |-> TRUE, functions |-> file.functions, classes |-> file.classes,
     calls |-> file.calls]

\* CodeAnalyzer.analyze_file: open raising is caught.  No Exception leaves
\* it, so that the except clauses of _analyze_file have nothing to catch
FileAnalysis(file) ==
    IF file.kind = "unreadable" THEN NoParse ELSE PythonParse(file)

\* f"{module_name}.{name}"
Qualified(module_name, name) == module_name \o "." \o name

\* self.symbol_table[full_name] = {...}
PutSymbol(symbol_table, info) ==
    IF \E i \in DOMAIN symbol_table : symbol_table[i].name = info.name
    THEN [i \in DOMAIN symbol_table |->
             IF symbol_table[i].name = info.name THEN info ELSE symbol_table[i]]
    ELSE Append(symbol_table, info)

\* lines 156-167
RegisterFunctions(symbol_table, file, functions) ==
    FoldLeft(LAMBDA t, func :
                 PutSymbol(t, Sym(Qualified(file.module_name, func.name), file.path,
                                  "Function", func.route)),
             symbol_table, functions)

\* lines 170-182
RegisterMethods(symbol_table, file, classes) ==
    FoldLeft(LAMBDA t, cls :
                 FoldLeft(LAMBDA u, method :
                              PutSymbol(u, Sym(Qualified(Qualified(file.module_name, cls.name),
                                                         method.name),
                                               file.path, "Method", method.route)),
                          t, cls.methods),
             symbol_table, classes)

\* lines 185-204
CollectCalls(calls, file, found) ==
    calls \o [i \in DOMAIN found |->
                 RawCall(IF found[i].source = "global"
                         THEN Qualified(file.module_name, "<main>")
                         ELSE Qualified(file.module_name, found[i].source),
                         found[i].target,
                         IF found[i].type = NoVal THEN "call" ELSE found[i].type)]

\* lines 143-204, for an analysis that is not None; use_ai is False
Register(tables, file, a) ==
    [symbol_table |-> RegisterMethods(RegisterFunctions(tables.symbol_table, file,
                                                        a.functions),
                                      file, a.classes),
     calls |-> CollectCalls(tables.calls, file, a.calls)]

\* _analyze_file
AnalyzeFile(tables, file) ==
    With(FileAnalysis(file), LAMBDA a : IF ~a.parsed THEN tables ELSE Register(tables, file, a))

\* analyze_project, lines 36-56
ScanFiles(files) == FoldLeft(AnalyzeFile, [symbol_table |-> <<>>, calls |-> <<>>], files)

\* the python files of the projects
FileKinds == {"ok", "unreadable", "syntax_error", "too_deep"}

Def(name, route) == [name |-> name, route |-> route]

PyFile(path, module_name, kind, functions, classes, calls) ==
    [path |-> path, module_name |-> module_name, kind |-> kind, functions |-> functions,
     classes |-> classes, calls |-> calls]

FilesM ==
    {PyFile("f1", "m", kind, <<Def("a", NoVal), Def("b", "/b")>>, <<>>,
            <<RawCall("a", "b", NoVal), RawCall("global", "a", NoVal),
              RawCall("a", "b", NoVal)>>) : kind \in FileKinds}
    \cup {PyFile("f1", "m", kind, <<Def("a", NoVal)>>,
                 <<[name |-> "C", methods |-> <<Def("b", NoVal)>>]>>,
                 <<RawCall("C.b", "a", NoVal), RawCall("a", "X", "api_call")>>) :
             kind \in FileKinds}

FilesN ==
    {PyFile("f2", "n", kind, <<Def("a", NoVal)>>, <<>>,
            <<RawCall("a", "m.b", NoVal), RawCall("a", "b", NoVal)>>) : kind \in FileKinds}
    \cup {PyFile("f2", "n", kind, <<Def("a", "/a")>>, <<>>,
                 <<RawCall("global", "a", NoVal), RawCall("a", "Y", "event_emit")>>) :
             kind \in FileKinds}

Projects ==
    {<<f>> : f \in FilesM \cup FilesN}
    \cup {<<f, g>> : f \in FilesM, g \in FilesN}
    \cup {<<g, f>> : f \in FilesM, g \in FilesN}

DefaultSettings == [graph_node_limit |-> NoInt, graph_edge_limit |-> NoInt]

Reverse(s) == [i \in DOMAIN s |-> s[Len(s) + 1 - i]]

HashOrders == {SmallNames, Reverse(SmallNames)}

\* lists of at most n distinct elements of S
RECURSIVE ListsOf(_, _)
ListsOf(S, n) ==
    IF n = 0 THEN {<<>>}
    ELSE ListsOf(S, n - 1)
         \cup UNION {{Append(l, x) : x \in S \ Range(l)} :
                     l \in {k \in ListsOf(S, n - 1) : Len(k) = n - 1}}

CallLists(n) == ListsOf({Call(p[1], p[2]) : p \in Syms \X Syms}, n)

FuncsPlain == <<Func("a", "f1", "Function"), Func("b", "f1", "Function"),
                Func("c", "f2", "Method")>>

\* a record without a type, one without a file and one with an empty file
FuncsSparse == <<Func("c", "f2", NoVal), Func("a", NoVal, "Function"),
                 Func("b", "", "Function")>>

FuncsTwo == <<Func("b", "f1", "Function"), Func("a", "f1", NoVal)>>

NodeTypes == {NoVal, "Function", "Method", "API_Route", "Read Image", "Gaussian Blur",
              "GenericFunction", "Output", "Module", "File", "Project"}

RelEntries ==
    {Rel("X", "Y", "bidirectional"),
     Rel("X", "X", "bidirectional"),
     Rel("a", "b", "bidirectional"),
     Rel("", "Y", NoVal),
     [Rel("Y", "X", "forward") EXCEPT !.weight = 5, !.risk_level = "high",
                                      !.type = "module_flow"],
     [Rel("X", "a", NoVal) EXCEPT !.layer = "input_source"],
     [Rel("a", "Y", NoVal) EXCEPT !.layer = "processing", !.node_type = "Output"],
     [Rel("Y", "b", NoVal) EXCEPT !.layer = "shared"],
     [Rel("root", "cv2.blur", NoVal) EXCEPT !.layer = "output", !.node_type = "Project"]}

NoProject == [symbol_table |-> <<>>, calls |-> <<>>]

NoAnalysis == [functions |-> <<>>, calls |-> <<>>]

NoContext == [nodes |-> <<>>, edges |-> <<>>]

NoGraph == [mode |-> NoVal]

CtxNode(id, width, height, x, y) ==
    [id |-> id, width |-> width, height |-> height, x |-> x, y |-> y, locked |-> FALSE]

CtxNodes == <<CtxNode("a", 220, 80, 30, 0), CtxNode("b", 350, 100, 10, 50),
              CtxNode("c", 220, 80, 20, 0)>>

\* the scene with the nodes of a set locked by the user and dragged to ys
Placed(nodes, locked, ys) ==
    [i \in DOMAIN nodes |-> [nodes[i] EXCEPT !.locked = nodes[i].id \in locked, !.y = ys[i]]]

\* the nodes the user has locked and the y of the three nodes
SceneLayouts ==
    {<<{}, <<0, 50, 0>>>>, <<{"b"}, <<0, 50, 0>>>>, <<{"b"}, <<300, 40, 40>>>>,
     <<{"a", "c"}, <<300, 40, 40>>>>}

MaxSceneEdges == 2

MaxIterations == 2

SymbolTables ==
    {<<Sym("m.a", "f1", "Function", NoVal), Sym("m.b", "f1", "Method", "/b"),
       Sym("n.a", "f2", "Function", NoVal)>>,
     <<Sym("n.a", "f2", "Function", NoVal), Sym("m.b", "f2", "ImplicitContext", NoVal),
       Sym("m.a", "f1", "Method", NoVal)>>}

RawCalls ==
    {RawCall(s, t, k) : s \in {"m.a", "n.a"}, t \in {"a", "b", "m.b"}, k \in {"call"}}
    \cup {RawCall("m.a", t, k) : t \in {"X", "Y"},
                                 k \in {"call", "implicit", "api_call", "mq_pub"}}

\* a project of n functions, per_file to a file, every function calling the
\* next one
LargeAnalysis(n, per_file) ==
    [functions |-> List([i \in 1..n |->
                           Func(SymName(i), FileName(((i - 1) \div per_file) + 1),
                                "Function")]),
     calls |-> List([i \in 1..(n - 1) |-> Call(SymName(i), SymName(i + 1))])]

\* the inputs of the slices that start with an analysis result at hand
Ready(a, r, s, h) ==
    /\ project = NoProject
    /\ current = NoAnalysis
    /\ previous = NoAnalysis
    /\ analysis = a
    /\ relations = r
    /\ settings = s
    /\ hashOrder = h
    /\ context = NoContext
    /\ pc = "ready"

\* call graphs of every shape over three symbols
InitCalls ==
    \/ \E cs \in CallLists(MaxCalls), h \in HashOrders :
           Ready([functions |-> FuncsPlain, calls |-> cs], <<>>, DefaultSettings, h)
    \/ \E fs \in {FuncsSparse, FuncsTwo}, cs \in CallLists(MaxCalls) :
           Ready([functions |-> fs, calls |-> cs], <<>>, DefaultSettings, SmallNames)

\* override lists
InitOverrides ==
    \E fs \in {<<>>, FuncsTwo},
       cs \in {<<>>, <<Call("a", "b")>>,
               <<[Call("b", "a") EXCEPT !.weight = 3, !.status = "added"]>>},
       r \in ListsOf(RelEntries, MaxRels), h \in HashOrders :
        Ready([functions |-> fs, calls |-> cs], r, DefaultSettings, h)

\* limits set by the user
InitLimits ==
    \E fs \in {FuncsPlain, FuncsTwo}, cs \in CallLists(2),
       n \in {NoInt, 2, 3}, e \in {NoInt, 1, 2} :
        /\ <<n, e>> # <<NoInt, NoInt>>
        /\ Ready([functions |-> fs, calls |-> cs], <<>>,
                 [graph_node_limit |-> n, graph_edge_limit |-> e], SmallNames)

\* node kinds and names the classifier tells apart
InitKinds ==
    \E n \in {"a", "cv2.blur", "root"}, f \in {NoVal, "", "f1", "f2"}, t \in NodeTypes,
       cs \in {<<>>, <<Call("b", "b")>>} :
        Ready([functions |-> <<Func(n, f, t), Func("b", "f1", "Function")>>, calls |-> cs],
              <<>>, DefaultSettings, SmallNames)

\* large projects: the Scale Guard scenario, a project beyond the cap of the
\* node limit, a project below the limits with more edges than
\* EDGE_CYCLE_CHECK_LIMIT, and one with exactly as many
\* analysis results as analyze_project returns them for two files, the calls
\* carrying their occurrence counts, with a node limit below their functions
InitWeighted ==
    \E w \in 1..MaxRaw, cs \in {<<>>, <<Call("b", "c")>>, <<Call("a", "b")>>} :
        Ready([functions |-> FuncsPlain,
               calls |-> <<CallRecord("a", "c", NoVal, w)>> \o cs],
              <<>>, [graph_node_limit |-> 2, graph_edge_limit |-> NoInt], SmallNames)

InitLarge ==
    \/ Ready(LargeAnalysis(ManySymbols, ManySymbols \div 2), <<>>, DefaultSettings, Names)
    \/ \E n \in {NoInt, NODE_LIMIT_CAP, NODE_LIMIT_CAP + NODE_LIMIT_CAP} :
           Ready([functions |-> LargeAnalysis(NODE_LIMIT_CAP + 1, NODE_LIMIT_CAP).functions,
                  calls |-> <<>>],
                 <<>>, [graph_node_limit |-> n, graph_edge_limit |-> NoInt], Names)
    \/ \E r \in {<<>>, <<Rel("cv2.blur", SymName(1), "bidirectional")>>,
                 <<Rel(SymName(1), SymName(2), "bidirectional")>>} :
           Ready([functions |-> LargeAnalysis(LargeFiles * PerFile, PerFile).functions
                                \o <<Func("cv2.blur", "f1", "Function")>>,
                  calls |-> <<Call(SymName(1), SymName(PerFile + 1))>>],
                 r, DefaultSettings, Names)
    \/ Ready([functions |-> LargeAnalysis(EDGE_CYCLE_CHECK_LIMIT - 2, PerFile).functions,
              calls |-> <<>>],
             <<Rel(SymName(1), SymName(2), "bidirectional")>>, DefaultSettings, Names)

\* scanned projects
InitProjects ==
    /\ project \in {[symbol_table |-> st, calls |-> cs] :
                       st \in SymbolTables, cs \in ListsOf(RawCalls, MaxRaw)}
    /\ current = NoAnalysis
    /\ previous = NoAnalysis
    /\ analysis = NoAnalysis
    /\ relations = <<>>
    /\ settings = DefaultSettings
    /\ hashOrder = SmallNames
    /\ context = NoContext
    /\ pc = "parsed"

Snapshots ==
    {[functions |-> fs, calls |-> cs] :
        fs \in {<<>>, FuncsPlain, FuncsTwo,
                <<Func("c", "f1", "Function"), Func("b", "f2", "Method")>>},
        cs \in {<<>>, <<Call("a", "b")>>, <<Call("b", "a"), Call("a", "b")>>,
                <<[Call("a", "b") EXCEPT !.weight = 2], Call("b", "c")>>}}

\* the analyses of two commits
InitSnapshots ==
    /\ project = NoProject
    /\ current \in Snapshots
    /\ previous \in Snapshots
    /\ analysis = NoAnalysis
    /\ relations = <<>>
    /\ settings = DefaultSettings
    /\ hashOrder \in HashOrders
    /\ context = NoContext
    /\ pc = "snapshots"

\* scenes handed to the layout optimizer
\* a context of n free nodes, spaced already, the first calling the second
Context(n) ==
    [nodes |-> [i \in 1..n |-> CtxNode(SymName(i), 200, 100, 0, i * 200)],
     edges |-> IF n >= 2 THEN <<[source |-> SymName(1), target |-> SymName(2)]>>
               ELSE <<>>]

\* the contexts execute is called with: their node counts lie at and next to
\* the two limits of the strategy selection
InitContexts ==
    /\ project = NoProject
    /\ current = NoAnalysis
    /\ previous = NoAnalysis
    /\ analysis = NoAnalysis
    /\ relations = <<>>
    /\ settings = DefaultSettings
    /\ hashOrder = Names
    /\ context \in {Context(n) : n \in {0, 1, 2, 49, 50, 51, 200, 201}}
    /\ pc = "context"

\* the edges of scenes with two ways from one node to another and an edge back
TwoWays ==
    {<<Call("a", "b"), Call("b", "c"), Call("a", "c"), Call("c", "a")>>,
     <<Call("c", "b"), Call("b", "a"), Call("c", "a"), Call("a", "c")>>}

InitScenes ==
    /\ project = NoProject
    /\ current = NoAnalysis
    /\ previous = NoAnalysis
    /\ analysis = NoAnalysis
    /\ relations = <<>>
    /\ settings = DefaultSettings
    /\ hashOrder \in HashOrders
    /\ context \in {[nodes |-> Placed(CtxNodes, {"b"}, <<0, 50, 0>>),
                     edges |-> [i \in DOMAIN cs |-> [source |-> cs[i].source,
                                                     target |-> cs[i].target]]] :
                       cs \in CallLists(MaxCalls) \cup TwoWays}
    /\ pc = "scene"

\* projects on disk: python files in the order os.walk yields them
InitFiles ==
    /\ project \in {[files |-> fs] : fs \in Projects}
    /\ current = NoAnalysis
    /\ previous = NoAnalysis
    /\ analysis = NoAnalysis
    /\ relations = <<>>
    /\ settings = DefaultSettings
    /\ hashOrder = SmallNames
    /\ context = NoContext
    /\ pc = "files"

\* scenes of at most 200 nodes, some nodes locked
InitSmallScenes ==
    /\ project = NoProject
    /\ current = NoAnalysis
    /\ previous = NoAnalysis
    /\ analysis = NoAnalysis
    /\ relations = <<>>
    /\ settings = DefaultSettings
    /\ hashOrder = CHOOSE h \in HashOrders : TRUE
    /\ context \in {[nodes |-> Placed(CtxNodes, layout[1], layout[2]),
                     edges |-> [i \in DOMAIN cs |-> [source |-> cs[i].source,
                                                     target |-> cs[i].target]]] :
                       cs \in CallLists(MaxSceneEdges), layout \in SceneLayouts}
    /\ pc = "small_scene"

\* a worker thread of the window that has been handed a project
Worker(files) ==
    [files |-> files, todo |-> files, stage |-> "start", analysis |-> NoAnalysis,
     graph_data |-> NoGraph]

\* two worker threads on projects of two directories, and the analyzer of
\* the module as the import leaves it
InitWorkers ==
    /\ project = NoProject
    /\ current = NoAnalysis
    /\ previous = NoAnalysis
    /\ analysis = NoAnalysis
    /\ relations = <<>>
    /\ settings = DefaultSettings
    /\ hashOrder = SmallNames
    /\ context = NoContext
    /\ pc = "workers"
    /\ workers \in {<<Worker(<<f>>), Worker(<<g>>)>> :
                       f \in {h \in FilesM : h.kind = "ok"},
                       g \in {h \in FilesN : h.kind = "ok"}}

Init ==
    /\ \/ InitCalls
       \/ InitOverrides
       \/ InitLimits
       \/ InitWeighted
       \/ InitKinds
       \/ InitLarge
       \/ InitProjects
       \/ InitSnapshots
       \/ InitScenes
       \/ InitSmallScenes
       \/ InitContexts
       \/ InitFiles
       \/ InitWorkers
    /\ pc # "workers" => workers = <<>>
    /\ graph = NoGraph
    /\ prevGraph = NoGraph
    /\ updates = <<>>
    /\ analyzer = NoProject

\* analyze_project: the analysis result of the scanned project
AnalyzeProject ==
    /\ pc \in {"files", "parsed"}
    /\ pc' = "ready"
    /\ analyzer' = IF pc = "files" THEN ScanFiles(project.files) ELSE project
    /\ analysis' = AnalysisOf(analyzer')
    /\ UNCHANGED <<project, current, previous, relations, settings, hashOrder, graph,
                   prevGraph, context, updates, workers>>

\* _merge_analyses(current, previous): the merged analysis is what the graph
\* is built from
Merge ==
    /\ pc = "snapshots"
    /\ pc' = "ready"
    /\ \E edge_order \in Orderings(EdgeKeys(current.calls) \cup EdgeKeys(previous.calls)) :
           analysis' = MergeAnalyses(current, previous,
                                     SetIter(NodeNames(current.functions)
                                             \cup NodeNames(previous.functions), hashOrder),
                                     edge_order)
    /\ UNCHANGED <<project, current, previous, relations, settings, hashOrder, graph,
                   prevGraph, context, updates, analyzer, workers>>

\* build_graph(analysis_result), called a first and a second time
BuildGraph ==
    /\ pc \in {"ready", "built"}
    /\ pc' = IF pc = "ready" THEN "built" ELSE "rebuilt"
    /\ graph' = BuildGraphData(analysis, relations, settings, hashOrder)
    /\ prevGraph' = graph
    /\ analysis' = AnalysisAfterBuild(analysis, settings)
    /\ UNCHANGED <<project, current, previous, relations, settings, hashOrder, context,
                   updates, analyzer, workers>>

\* _layout_layered_strict on the graph of the scene; graph is the graph
\* execute has built, before and after the call
LayeredStrict ==
    /\ pc = "scene"
    /\ pc' = "placed"
    /\ updates' = LayoutLayeredStrict(ContextGraph(context),
                                      SetIter(DOMAIN ContextGraph(context).attrs, hashOrder))
    /\ graph' = [mode |-> "scene", built |-> ContextGraph(context),
                 G |-> StrictAfter(ContextGraph(context),
                                   SimpleCycles(ContextGraph(context),
                                                SetIter(DOMAIN ContextGraph(context).attrs,
                                                        hashOrder)))]
    /\ UNCHANGED <<project, current, previous, analysis, relations, settings, hashOrder,
                   prevGraph, context, analyzer, workers>>

\* _layout_hybrid on the graph of the scene, for some number of iterations
Hybrid ==
    /\ pc = "small_scene"
    /\ pc' = "relaxed"
    /\ \E iterations \in {0, MaxIterations} :
           /\ updates' = LayoutHybrid(ContextGraph(context), LockedNodes(context),
                                      iterations)
           /\ graph' = [mode |-> "scene", built |-> ContextGraph(context),
                        G |-> HybridAfter(ContextGraph(context)),
                        iterations |-> iterations]
    /\ UNCHANGED <<project, current, previous, analysis, relations, settings, hashOrder,
                   prevGraph, context, analyzer, workers>>

\* execute on the context: graph is what it returns next to the updates
Optimize ==
    /\ pc = "context"
    /\ pc' = "optimized"
    /\ \E result \in {Execute(context, hashOrder)} :
           /\ updates' = result.updates
           /\ graph' = [mode |-> "context", status |-> result.status,
                        method |-> result.method, iterations |-> result.iterations]
    /\ UNCHANGED <<project, current, previous, analysis, relations, settings, hashOrder,
                   prevGraph, context, analyzer, workers>>

\* _run_analysis_task in a worker thread: analyze_project on the analyzer
\* of the module, lines 36-37
WorkerReset(w) ==
    /\ pc = "workers"
    /\ workers[w].stage = "start"
    /\ analyzer' = [symbol_table |-> <<>>, calls |-> <<>>]
    /\ workers' = [workers EXCEPT ![w].stage = "scan"]
    /\ UNCHANGED <<project, current, previous, analysis, relations, settings, hashOrder,
                   graph, prevGraph, pc, context, updates>>

\* analyze_project, lines 40-56: the next file of the walk
WorkerAnalyzeFile(w) ==
    /\ pc = "workers"
    /\ workers[w].stage = "scan"
    /\ workers[w].todo # <<>>
    /\ analyzer' = AnalyzeFile(analyzer, Head(workers[w].todo))
    /\ workers' = [workers EXCEPT ![w].todo = Tail(@)]
    /\ UNCHANGED <<project, current, previous, analysis, relations, settings, hashOrder,
                   graph, prevGraph, pc, context, updates>>

\* analyze_project, lines 58-131: the result, from the tables of the analyzer
WorkerResolve(w) ==
    /\ pc = "workers"
    /\ workers[w].stage = "scan"
    /\ workers[w].todo = <<>>
    /\ workers' = [workers EXCEPT ![w].stage = "build", ![w].analysis = AnalysisOf(analyzer)]
    /\ UNCHANGED <<project, current, previous, analysis, relations, settings, hashOrder,
                   graph, prevGraph, pc, context, updates, analyzer>>

\* _run_analysis_task: build_graph(analysis)
WorkerBuild(w) ==
    /\ pc = "workers"
    /\ workers[w].stage = "build"
    /\ workers' = [workers EXCEPT
                      ![w].stage = "done",
                      ![w].graph_data = BuildGraphData(workers[w].analysis, relations,
                                                       settings, hashOrder),
                      ![w].analysis = AnalysisAfterBuild(@, settings)]
    /\ UNCHANGED <<project, current, previous, analysis, relations, settings, hashOrder,
                   graph, prevGraph, pc, context, updates, analyzer>>

RunAnalysisTask ==
    \E w \in DOMAIN workers :
        WorkerReset(w) \/ WorkerAnalyzeFile(w) \/ WorkerResolve(w) \/ WorkerBuild(w)

Next ==
    AnalyzeProject \/ Merge \/ BuildGraph \/ LayeredStrict \/ Hybrid \/ Optimize
    \/ RunAnalysisTask

Spec == Init /\ [][Next]_vars

(***************************************************************************)
(* Properties.  Built abbreviates "build_graph has returned".              *)
(***************************************************************************)
Built == pc \in {"built", "rebuilt"}

\* the graph (N, E) has no directed cycle: peel off the nodes without an
\* incoming edge until none is left
RECURSIVE NoCycle(_, _)
NoCycle(N, E) ==
    IF N = {} THEN TRUE
    ELSE IF \A n \in N : \E e \in E : e[2] = n THEN FALSE
    ELSE NoCycle({n \in N : \E e \in E : e[2] = n},
                 {e \in E : \E d \in E : d[2] = e[1]})

\* the edges of the scene both end points of which are nodes of the scene
SceneEdges ==
    {<<context.edges[i].source, context.edges[i].target>> : i \in DOMAIN context.edges}
    \cap ({context.nodes[i].id : i \in DOMAIN context.nodes}
          \X {context.nodes[i].id : i \in DOMAIN context.nodes})

\* the output nodes with a title, the output edges between two titles
OutNodes(title) == {j \in DOMAIN graph.nodes : graph.nodes[j].title = title}

OutEdges(u, v) ==
    {i \in DOMAIN graph.edges :
        \E j \in OutNodes(u), k \in OutNodes(v) :
            /\ graph.edges[i].source = graph.nodes[j].id
            /\ graph.edges[i].target = graph.nodes[k].id}

\* C1: when the graph is acyclic, the layered layout of the builder and the
\* strict layered layout of the optimizer give the source of every edge an x
\* coordinate strictly smaller than the one of its target
C1_SourceLeftOfTarget ==
    /\ (Built /\ NoCycle(DOMAIN graph.G.attrs, DOMAIN graph.G.eattrs))
          => \A e \in DOMAIN graph.G.eattrs : graph.pos[e[1]][1] < graph.pos[e[2]][1]
    /\ (pc = "placed" /\ NoCycle({context.nodes[i].id : i \in DOMAIN context.nodes},
                                 SceneEdges))
          => \A e \in SceneEdges : updates[e[1]].x < updates[e[2]].x

\* an acyclic call chain a -> b -> c has been laid out by the builder
C1_Witness ==
    /\ Built
    /\ graph.mode = "full"
    /\ NoCycle(DOMAIN graph.G.attrs, DOMAIN graph.G.eattrs)
    /\ {<<"a", "b">>, <<"b", "c">>} \subseteq DOMAIN graph.G.eattrs

\* f.get("file", "unknown") of the input symbols
InputFiles ==
    {IF analysis.functions[i].file = NoVal THEN "unknown" ELSE analysis.functions[i].file :
        i \in DOMAIN analysis.functions}

InputNames == {analysis.functions[i].name : i \in DOMAIN analysis.functions}

\* the end points the override entries name
OverrideNames ==
    {relations[i].source : i \in DOMAIN relations}
    \cup {relations[i].target : i \in DOMAIN relations}

\* the output nodes of the Aggregated Mode, one per distinct file
OneNodePerFile ==
    /\ Len(graph.nodes) = Cardinality(InputFiles)
    /\ {graph.nodes[j].file : j \in DOMAIN graph.nodes} = InputFiles

\* C2 as stated: the output nodes are in bijection with the input symbols
\* (Full Mode) or with the distinct input files (Aggregated Mode)
C2_NodesAreTheSymbols ==
    Built =>
        /\ graph.mode = "full" =>
              /\ Len(graph.nodes) = Len(analysis.functions)
              /\ {graph.nodes[j].title : j \in DOMAIN graph.nodes} = InputNames
        /\ graph.mode = "aggregated_file" => OneNodePerFile

\* C2 amended: in Full Mode every input symbol is exactly one output node, and
\* every other output node is the node of a symbol's file or of an end point
\* of an override entry; in Aggregated Mode the output nodes are in bijection
\* with the distinct input files
C2_NoSymbolLost ==
    Built =>
        /\ graph.mode = "full" =>
              /\ \A n \in InputNames : Cardinality(OutNodes(n)) = 1
              /\ \A j \in DOMAIN graph.nodes :
                    graph.nodes[j].title \in InputNames \cup InputFiles \cup OverrideNames
        /\ graph.mode = "aggregated_file" => OneNodePerFile

\* a Full Mode output with symbols, a file node and a node an override made
C2_Witness ==
    /\ Built
    /\ graph.mode = "full"
    /\ analysis.functions # <<>>
    /\ \E j \in DOMAIN graph.nodes :
          graph.nodes[j].type = "File" /\ graph.nodes[j].title \notin InputNames
    /\ \E j \in DOMAIN graph.nodes :
          graph.nodes[j].title \in OverrideNames \ (InputNames \cup InputFiles)

\* C3: the cycle-breaking loop ends, the topological sort of the copy
\* succeeds, and no edge kept in the copy goes from a node to a node with a
\* lower or equal sequence number
C3_OrderRespectsKeptEdges ==
    Built =>
        /\ ~graph.diverged
        /\ ~graph.fallback
        /\ \A e \in DOMAIN graph.dag.eattrs :
              graph.execution_map[e[1]] < graph.execution_map[e[2]]

\* a graph with a self loop and a two-cycle, edges of which were removed
C3_Witness ==
    /\ Built
    /\ graph.mode = "full"
    /\ {<<"a", "a">>, <<"a", "b">>, <<"b", "a">>} \subseteq DOMAIN graph.G.eattrs
    /\ <<"a", "a">> \notin DOMAIN graph.dag.eattrs
    /\ Cardinality({<<"a", "b">>, <<"b", "a">>} \cap DOMAIN graph.dag.eattrs) = 1

\* C4: a second call of build_graph with the same analysis result returns the
\* same layers, columns and coordinates for every node as the first call
C4_SecondRunSame ==
    pc = "rebuilt" =>
        /\ graph.mode = prevGraph.mode
        /\ graph.nodes = prevGraph.nodes
        /\ graph.pos = prevGraph.pos

\* a second Full Mode run on an analysis result the first run has written to
C4_Witness ==
    /\ pc = "rebuilt"
    /\ graph.mode = "full"
    /\ \E i \in DOMAIN analysis.functions : analysis.functions[i].file = "unknown"
    /\ \E e \in DOMAIN graph.G.eattrs : e[1] \in InputNames /\ e[2] \in InputNames

\* the names and the (source, target) keys of a list of records
NamesIn(funcs) == {funcs[i].name : i \in DOMAIN funcs}

KeysIn(calls) == {<<calls[i].source, calls[i].target>> : i \in DOMAIN calls}

\* the status the merge owes to an element of the union
StatusOf(x, cur, prev) ==
    IF x \notin prev THEN "added" ELSE IF x \notin cur THEN "removed" ELSE "unchanged"

Merged == pc # "snapshots" /\ (current # NoAnalysis \/ previous # NoAnalysis)

\* C5: the merge lists every name of the union of the two snapshots once, as
\* added (current only), removed (previous only) or unchanged (both), and
\* every edge keyed by (source, target) likewise
C5_MergeStatuses ==
    Merged =>
        /\ Len(analysis.functions)
              = Cardinality(NamesIn(current.functions) \cup NamesIn(previous.functions))
        /\ \A n \in NamesIn(current.functions) \cup NamesIn(previous.functions) :
              \E i \in DOMAIN analysis.functions :
                  /\ analysis.functions[i].name = n
                  /\ analysis.functions[i].status
                        = StatusOf(n, NamesIn(current.functions),
                                   NamesIn(previous.functions))
        /\ Len(analysis.calls)
              = Cardinality(KeysIn(current.calls) \cup KeysIn(previous.calls))
        /\ \A k \in KeysIn(current.calls) \cup KeysIn(previous.calls) :
              \E i \in DOMAIN analysis.calls :
                  /\ <<analysis.calls[i].source, analysis.calls[i].target>> = k
                  /\ analysis.calls[i].status
                        = StatusOf(k, KeysIn(current.calls), KeysIn(previous.calls))

\* a merge with an added, a removed and an unchanged name and edge
C5_Witness ==
    /\ pc = "ready"
    /\ Merged
    /\ {analysis.functions[i].status : i \in DOMAIN analysis.functions}
          = {"added", "removed", "unchanged"}
    /\ {analysis.calls[i].status : i \in DOMAIN analysis.calls}
          = {"added", "removed", "unchanged"}

ThreeCycle == {<<"a", "b">>, <<"b", "c">>, <<"c", "a">>}

\* the symbols a, b, c with the calls a -> b -> c -> a, default limits
ThreeCycleBuilt ==
    /\ Built
    /\ settings = DefaultSettings
    /\ relations = <<>>
    /\ InputNames = Syms
    /\ KeysIn(analysis.calls) = ThreeCycle

\* C6: for a -> b -> c -> a exactly one call edge is removed from the working
\* copy, the three symbols get three distinct sequence numbers that agree
\* with the two edges left, and the output holds all three call edges with
\* risk "high"
C6_ThreeCycle ==
    ThreeCycleBuilt =>
        /\ graph.mode = "full"
        /\ Cardinality(ThreeCycle \ DOMAIN graph.dag.eattrs) = 1
        /\ Cardinality({graph.execution_map[n] : n \in Syms}) = 3
        /\ \A e \in ThreeCycle \cap DOMAIN graph.dag.eattrs :
              graph.execution_map[e[1]] < graph.execution_map[e[2]]
        /\ \A e \in ThreeCycle :
              /\ Cardinality(OutEdges(e[1], e[2])) = 1
              /\ \A i \in OutEdges(e[1], e[2]) : graph.edges[i].risk = "high"

C6_Witness == ThreeCycleBuilt /\ graph.mode = "full" /\ Len(graph.edges) >= 3

\* the limits the Scale Guard compares with
NodeLimit ==
    IF settings.graph_node_limit = NoInt THEN MAX_NODES
    ELSE IF settings.graph_node_limit > NODE_LIMIT_CAP THEN NODE_LIMIT_CAP
    ELSE settings.graph_node_limit

EdgeLimit ==
    IF settings.graph_edge_limit = NoInt THEN MAX_EDGES ELSE settings.graph_edge_limit

\* C7: the mode is Aggregated exactly when the number of symbols exceeds the
\* node limit or the number of calls the edge limit, and Full otherwise; with
\* the default limits the project of ManySymbols symbols is aggregated, its
\* output has one node per distinct file and carries the mode in its meta
C7_ScaleGuard ==
    Built =>
        /\ graph.mode = "aggregated_file"
              <=> (Len(analysis.functions) > NodeLimit \/ Len(analysis.calls) > EdgeLimit)
        /\ graph.mode \in {"aggregated_file", "full"}
        /\ (settings = DefaultSettings /\ Len(analysis.functions) >= ManySymbols) =>
              /\ graph.mode = "aggregated_file"
              /\ OneNodePerFile
              /\ Len(graph.nodes) < Len(analysis.functions)
              /\ graph.meta.mode = "aggregated_file"

C7_Witness ==
    /\ Built
    /\ settings = DefaultSettings
    /\ Len(analysis.functions) = ManySymbols
    /\ graph.mode = "aggregated_file"
    /\ Len(graph.nodes) = 2

\* the bidirectional override entries between two different named end points
\* that no other entry names
Bidirectional ==
    {i \in DOMAIN relations :
        /\ relations[i].direction = "bidirectional"
        /\ Truthy(relations[i].source)
        /\ Truthy(relations[i].target)
        /\ relations[i].source # relations[i].target
        /\ \A j \in DOMAIN relations \ {i} :
              {relations[j].source, relations[j].target}
                  # {relations[i].source, relations[i].target}}

\* the two edges of X <-> Y are in the graph with the same weight, risk and type
SameInGraph(X, Y) ==
    /\ HasEdge(graph.G, X, Y)
    /\ HasEdge(graph.G, Y, X)
    /\ graph.G.eattrs[<<X, Y>>].weight = graph.G.eattrs[<<Y, X>>].weight
    /\ graph.G.eattrs[<<X, Y>>].risk = graph.G.eattrs[<<Y, X>>].risk
    /\ graph.G.eattrs[<<X, Y>>].type = graph.G.eattrs[<<Y, X>>].type

\* the two edges of X <-> Y are in the output, once each
BothInOutput(X, Y) ==
    /\ Cardinality(OutEdges(X, Y)) = 1
    /\ Cardinality(OutEdges(Y, X)) = 1

\* the output edges of X <-> Y agree in the field named
SameInOutput(X, Y, field) ==
    \A i \in OutEdges(X, Y), j \in OutEdges(Y, X) :
        graph.edges[i][field] = graph.edges[j][field]

Orphans ==
    {i \in DOMAIN analysis.functions :
        /\ analysis.functions[i].type = NoVal
        /\ analysis.functions[i].name \notin OverrideNames
        /\ \A c \in DOMAIN analysis.calls :
              analysis.functions[i].name
                  \notin {analysis.calls[c].source, analysis.calls[c].target}
        /\ analysis.functions[i].name \notin {"cv2.blur", "root"}}

\* every orphan is one output node, of the logical layer LOGIC and of the
\* physical layer named
OrphansIn(physical) ==
    \A i \in Orphans :
        /\ Cardinality(OutNodes(analysis.functions[i].name)) = 1
        /\ \A j \in OutNodes(analysis.functions[i].name) :
              /\ graph.nodes[j].logical = LOGIC_LAYERS["LOGIC"]
              /\ graph.nodes[j].physical = physical

\* C9 as stated: a symbol without edges and without classification hints is
\* in the Full Mode output with logical layer LOGIC and physical layer OTHER
C9_OrphanIsOther == (Built /\ graph.mode = "full") => OrphansIn("OTHER")

\* C9 amended: such a symbol is in the Full Mode output with logical layer
\* LOGIC and physical layer COMPUTATION, its missing type being read as
\* "Function"
C9_OrphanIsComputation == (Built /\ graph.mode = "full") => OrphansIn("COMPUTATION")

C9_Witness == Built /\ graph.mode = "full" /\ Orphans # {} /\ OrphansIn("COMPUTATION")

\* the raw calls the target of which resolves to no symbol
Unresolved ==
    {i \in DOMAIN analyzer.calls :
        ~Truthy(ResolveTarget([k \in DOMAIN analyzer.symbol_table |->
                                  analyzer.symbol_table[k].name],
                              analyzer.calls[i].target))}

\* the graph and the output hold an edge from u to a node v
EdgeKept(u, v) ==
    /\ graph.mode = "full"
    /\ HasNode(graph.G, v)
    /\ HasEdge(graph.G, u, v)
    /\ OutEdges(u, v) # {}

\* C10 as stated: an unresolved raw call of one of the external kinds is an
\* edge to a node for its target in the graph and in the output, and the
\* target of any other unresolved raw call has no edge
C10_ExternalCallsKept ==
    (Built /\ analyzer # NoProject) =>
        \A i \in Unresolved :
            EdgeKept(analyzer.calls[i].source, analyzer.calls[i].target)
                <=> \E j \in Unresolved :
                        /\ analyzer.calls[j].source = analyzer.calls[i].source
                        /\ analyzer.calls[j].target = analyzer.calls[i].target
                        /\ analyzer.calls[j].type \in EXTERNAL_KINDS

\* the names of the scanned symbols, in the order of the symbol table
SymbolKeys == [k \in DOMAIN analyzer.symbol_table |-> analyzer.symbol_table[k].name]

Analyzed == analyzer # NoProject /\ pc \in {"ready", "built", "rebuilt"}

\* the raw calls from s the target of which resolves to the symbol t
RawResolving(s, t) ==
    {i \in DOMAIN analyzer.calls :
        /\ analyzer.calls[i].source = s
        /\ ResolveTarget(SymbolKeys, analyzer.calls[i].target) = t}

\* the calls of the analysis result from s to t
CallsBetween(s, t) ==
    {i \in DOMAIN analysis.calls :
        analysis.calls[i].source = s /\ analysis.calls[i].target = t}

\* the sum of the weights of the calls of the analysis result to a symbol
RECURSIVE WeightSum(_)
WeightSum(n) ==
    IF n = 0 THEN 0
    ELSE WeightSum(n - 1)
         + (IF Has(SymbolKeys, analysis.calls[n].target) THEN analysis.calls[n].weight
            ELSE 0)

\* C11: after call resolution there is at most one edge per resolved
\* (source, target) pair, its weight is at least 1 and is the number of raw
\* calls that resolved to the pair, and the weights of the resolved edges sum
\* to the number of raw calls that resolved
C11_WeightIsOccurrenceCount ==
    Analyzed =>
        /\ \A s \in Range(SymbolKeys) \cup {analyzer.calls[i].source : i \in DOMAIN analyzer.calls},
              t \in Range(SymbolKeys) :
              /\ Cardinality(CallsBetween(s, t)) <= 1
              /\ Cardinality(CallsBetween(s, t)) = 1 <=> RawResolving(s, t) # {}
              /\ \A i \in CallsBetween(s, t) :
                    /\ analysis.calls[i].weight >= 1
                    /\ analysis.calls[i].weight = Cardinality(RawResolving(s, t))
        /\ WeightSum(Len(analysis.calls))
              = Cardinality({i \in DOMAIN analyzer.calls :
                                Truthy(ResolveTarget(SymbolKeys, analyzer.calls[i].target))})

\* two raw calls have collapsed into one edge of weight 2
C11_Witness ==
    /\ Analyzed
    /\ Len(analyzer.calls) = 2
    /\ Len(analysis.calls) = 1
    /\ analysis.calls[1].weight = 2

\* the nodes of the graph that carry a manual layer
Layered == {n \in DOMAIN graph.G.attrs : graph.G.attrs[n].layer # NoVal}

\* the output node of n has the physical layer named and the logical layer MODULE
InLayer(n, physical) ==
    /\ Cardinality(OutNodes(n)) = 1
    /\ \A j \in OutNodes(n) :
          /\ graph.nodes[j].physical = physical
          /\ graph.nodes[j].logical = LOGIC_LAYERS["MODULE"]

\* the override entries that give the node n a layer
LayerEntries(n) ==
    {i \in DOMAIN relations :
        Truthy(relations[i].layer) /\ n \in {relations[i].source, relations[i].target}}

GraphEdgeOf(i) ==
    CHOOSE e \in DOMAIN graph.G.eattrs :
        /\ \E j \in OutNodes(e[1]) : graph.nodes[j].id = graph.edges[i].source
        /\ \E j \in OutNodes(e[2]) : graph.nodes[j].id = graph.edges[i].target

\* the edges of the graph that lie on a cycle of one or two edges
OnShortCycle == {e \in DOMAIN graph.G.eattrs : <<e[2], e[1]>> \in DOMAIN graph.G.eattrs}

\* C13: cycles are enumerated only when the graph has at most
\* EDGE_CYCLE_CHECK_LIMIT edges; above the limit no output edge is tagged as a
\* cycle edge and none has its risk raised to "high"
C13_NoCycleTagAboveLimit ==
    (Built /\ graph.mode = "full") =>
        IF Cardinality(DOMAIN graph.G.eattrs) > EDGE_CYCLE_CHECK_LIMIT
        THEN \A i \in DOMAIN graph.edges :
                /\ graph.edges[i].type # "cycle"
                /\ graph.edges[i].risk
                      = (IF graph.G.eattrs[GraphEdgeOf(i)].risk = NoVal THEN "low"
                         ELSE graph.G.eattrs[GraphEdgeOf(i)].risk)
        ELSE \A i \in DOMAIN graph.edges :
                GraphEdgeOf(i) \in OnShortCycle
                    => graph.edges[i].type = "cycle" /\ graph.edges[i].risk = "high"

\* a graph above the limit with a cycle of two edges, both in the output
C13_Witness ==
    /\ Built
    /\ graph.mode = "full"
    /\ Cardinality(DOMAIN graph.G.eattrs) > EDGE_CYCLE_CHECK_LIMIT
    /\ OnShortCycle # {}
    /\ \A e \in OnShortCycle : OutEdges(e[1], e[2]) # {}

(***************************************************************************)
(* The hybrid layout                                                       *)
(***************************************************************************)
Relaxed == pc = "relaxed"

SceneGraph == ContextGraph(context)

\* the edges the acyclic projection of the scene keeps
KeptSceneEdges == DOMAIN HybridDag(SceneGraph).eattrs

\* the columns of the scene
SceneLayers == HybridLayers(SceneGraph)

\* the nodes of the column of a node
ColumnOf(layers, n) == Range(layers[CHOOSE k \in DOMAIN layers : n \in Range(layers[k])])

InputOf(n) == SceneGraph.attrs[n]

\* C14: after the hybrid layout, whatever the locked nodes, the initial y
\* values and the number of iterations, two nodes of one column have one
\* x, and every edge the acyclic projection keeps has its source at a
\* smaller x than its target.
C14_KeptEdgesGoRight ==
    Relaxed =>
        /\ With(SceneLayers, LAMBDA layers :
                    \A u \in DOMAIN updates :
                        \A v \in ColumnOf(layers, u) : updates[u].x = updates[v].x)
        /\ \A e \in KeptSceneEdges : updates[e[1]].x < updates[e[2]].x

\* a scene with a cycle, one of its edges kept, a locked node, and a node
\* that the iterations have moved
C14_Witness ==
    /\ Relaxed
    /\ KeptSceneEdges # {}
    /\ KeptSceneEdges # DOMAIN SceneGraph.eattrs
    /\ LockedNodes(context) # {}
    /\ \E n \in DOMAIN updates : updates[n].y # Frac(InputOf(n).y, 1)

\* C15 as stated: in the positions the layout optimizer returns, a locked
\* node has the x and the y it had on input.
C15_LockedNeverMoves ==
    /\ Relaxed => \A n \in LockedNodes(context) :
                      /\ updates[n].x = InputOf(n).x
                      /\ updates[n].y = Frac(InputOf(n).y, 1)
    /\ pc = "placed" => \A n \in LockedNodes(context) :
                            /\ updates[n].x = InputOf(n).x
                            /\ updates[n].y = InputOf(n).y

\* C15, amended: in the positions the hybrid layout returns, a locked node
\* has the y it had on input, after any number of relaxation and collision
\* passes, and the x of its column.
C15_LockedKeepsY ==
    Relaxed =>
        With(SceneLayers, LAMBDA layers :
            \A n \in LockedNodes(context) :
                /\ updates[n].y = Frac(InputOf(n).y, 1)
                /\ \A m \in ColumnOf(layers, n) : updates[m].x = updates[n].x)

\* a locked node and a free node of one column closer than the minimum
\* gap on input: the free node has been pushed, the locked one is at its y
\* and at the x of the column, which is not the x it had
C15_Witness ==
    /\ Relaxed
    /\ \E n \in LockedNodes(context), m \in DOMAIN updates \ LockedNodes(context) :
           /\ m \in ColumnOf(SceneLayers, n)
           /\ InputOf(n).y = InputOf(m).y
           /\ updates[m].y # Frac(InputOf(m).y, 1)
           /\ updates[n].x # InputOf(n).x

(***************************************************************************)
(* The scan of the files                                                   *)
(***************************************************************************)
Scanned == "files" \in DOMAIN project /\ pc # "files"

BadFiles == {project.files[i] : i \in {j \in DOMAIN project.files :
                                          project.files[j].kind # "ok"}}

GoodFiles == SelectSeq(project.files, LAMBDA f : f.kind = "ok")

\* C16: a file that cannot be read or parsed leaves analyze_project
\* running and contributes no symbol and no call; the symbol table, the raw
\* calls and the analysis are those of the project without the file.
C16_BadFileContributesNothing ==
    Scanned =>
        /\ \A f \in BadFiles :
               /\ \A i \in DOMAIN analyzer.symbol_table :
                      analyzer.symbol_table[i].file # f.path
               /\ \A i \in DOMAIN analyzer.calls :
                      analyzer.calls[i].source
                          \notin {Qualified(f.module_name, n) : n \in {"a", "b", "C.b", "<main>"}}
        /\ analyzer = ScanFiles(GoodFiles)
        /\ pc = "ready" => analysis = AnalysisOf(ScanFiles(GoodFiles))

\* a project of a file that does not parse and a file that does, whose
\* functions and calls are in the analysis
C16_Witness ==
    /\ Scanned
    /\ pc = "ready"
    /\ \E f \in BadFiles : f.functions # <<>> /\ f.calls # <<>>
    /\ analysis.functions # <<>>
    /\ analysis.calls # <<>>

(***************************************************************************)
(* Two analysis tasks at a time                                            *)
(***************************************************************************)
\* what _run_analysis_task returns for a project when no other task runs
Alone(files) ==
    [analysis |-> AnalysisAfterBuild(AnalysisOf(ScanFiles(files)), settings),
     graph_data |-> BuildGraphData(AnalysisOf(ScanFiles(files)), relations, settings,
                                   hashOrder)]

\* C17 as stated: two tasks that run at a time on projects of two
\* directories return, under every interleaving, what each returns alone.
C17_AsAlone ==
    \A w \in DOMAIN workers :
        workers[w].stage = "done" =>
            /\ workers[w].analysis = Alone(workers[w].files).analysis
            /\ workers[w].graph_data = Alone(workers[w].files).graph_data

(***************************************************************************)
(* The graph of the caller                                                 *)
(***************************************************************************)
LaidOut == pc \in {"built", "rebuilt", "placed", "relaxed"}

\* C18: after ordering and layout (build_graph in both modes,
\* _layout_layered_strict, _layout_hybrid) the graph that was passed in has
\* the nodes and the edges it had before; the edges that break the cycles
\* are removed from a copy.
C18_GraphKeepsItsEdges ==
    LaidOut =>
        /\ DOMAIN graph.G.attrs = DOMAIN graph.built.attrs
        /\ DOMAIN graph.G.eattrs = DOMAIN graph.built.eattrs
        /\ graph.G.nodes = graph.built.nodes
        /\ graph.G.succ = graph.built.succ

\* a graph with a cycle: the copy has lost an edge that the graph has kept
C18_Witness ==
    /\ Built
    /\ graph.mode = "full"
    /\ DOMAIN graph.dag.eattrs # DOMAIN graph.built.eattrs
    /\ DOMAIN graph.G.eattrs = DOMAIN graph.built.eattrs

(***************************************************************************)
(* build_graph always returns a graph                                      *)
(***************************************************************************)
\* the ids of the nodes of the output
OutIds == {graph.nodes[i].id : i \in DOMAIN graph.nodes}

\* C19: for every analysis result, with or without cycles, below or above
\* the limits, build_graph ends and returns a graph: a node list with one
\* node per node of the graph it has built, and an edge list between them.
C19_AlwaysAGraph ==
    Built =>
        /\ graph.mode \in {"full", "aggregated_file"}
        /\ ~graph.diverged
        /\ Len(graph.nodes) = Cardinality(DOMAIN graph.G.attrs)
        /\ \A i \in DOMAIN graph.edges :
               graph.edges[i].source \in OutIds /\ graph.edges[i].target \in OutIds

\* an analysis above the limits whose files call each other in a cycle
C19_Witness ==
    /\ Built
    /\ graph.mode = "aggregated_file"
    /\ DOMAIN graph.dag.eattrs # DOMAIN graph.G.eattrs
    /\ graph.nodes # <<>>
    /\ graph.edges # <<>>

(***************************************************************************)
(* Execution sequence numbers                                              *)
(***************************************************************************)
\* the node of the graph an output node stands for
GraphNodeOf(node) == IF graph.mode = "aggregated_file" THEN node.file ELSE node.title

\* C20: in both modes the execution sequence number of a node is its
\* 1-based position in the topological sort of the copy without cycles:
\* the numbers of a graph of N nodes are 1..N, each the number of one node,
\* and every output node carries the number of its node.
C20_SequenceNumbers ==
    Built =>
        /\ DOMAIN graph.execution_map = DOMAIN graph.G.attrs
        /\ {graph.execution_map[n] : n \in DOMAIN graph.G.attrs}
               = 1..Cardinality(DOMAIN graph.G.attrs)
        /\ With(TopologicalSort(graph.dag).order, LAMBDA order :
                    \A n \in DOMAIN graph.G.attrs : order[graph.execution_map[n]] = n)
        /\ \A i \in DOMAIN graph.nodes :
               graph.nodes[i].exec_seq = graph.execution_map[GraphNodeOf(graph.nodes[i])]
        /\ {graph.nodes[i].exec_seq : i \in DOMAIN graph.nodes} = 1..Len(graph.nodes)

\* a graph of at least four nodes with a cycle, the last number given
C20_Witness ==
    /\ Built
    /\ graph.mode = "full"
    /\ Len(graph.nodes) >= 4
    /\ DOMAIN graph.dag.eattrs # DOMAIN graph.G.eattrs
    /\ \E i \in DOMAIN graph.nodes : graph.nodes[i].exec_seq = Len(graph.nodes)

(***************************************************************************)
(* The classifier's fallbacks                                              *)
(***************************************************************************)
\* the output nodes of Full Mode whose graph node has no manual layer
Unlayered ==
    {j \in DOMAIN graph.nodes :
        ~(/\ graph.G.attrs[graph.nodes[j].title].layer # NoVal
          /\ Upper(graph.G.attrs[graph.nodes[j].title].layer) \in DOMAIN PHYSICAL_LAYERS)}

\* the node kinds one of the classifier's tables names
MatchedKinds ==
    {"Read Image", "Video Capture", "Input", "Canny Edge", "Convert Color",
     "Gaussian Blur", "GenericFunction", "Function", "Method", "Show Image",
     "Save Image", "Output"}

\* C21 as stated: without a manual layer, a node of kind 'Function' or
\* 'Method' is classified COMPUTATION, a node of an output kind OUTPUT, and
\* only a node of a kind no table names is classified OTHER
C21_FunctionsAndMethodsCompute ==
    (Built /\ graph.mode = "full") =>
        \A j \in Unlayered :
            /\ graph.nodes[j].type \in {"Function", "Method"}
                   => graph.nodes[j].physical = "COMPUTATION"
            /\ graph.nodes[j].type \in {"Show Image", "Save Image", "Output"}
                   => graph.nodes[j].physical = "OUTPUT"
            /\ graph.nodes[j].physical = "OTHER"
                   => graph.nodes[j].type \notin MatchedKinds

(***************************************************************************)
(* Cycle edges below the limit                                             *)
(***************************************************************************)
\* the nodes of the built graph an edge leads to from one of the nodes S
Successors(S) == {e[2] : e \in {d \in DOMAIN graph.G.eattrs : d[1] \in S}}

\* the nodes paths of zero or more edges lead to from the nodes S
RECURSIVE ReachableFrom(_)
ReachableFrom(S) ==
    IF Successors(S) \subseteq S THEN S ELSE ReachableFrom(S \cup Successors(S))

\* the edges of the built graph that lie on a directed cycle: the source is
\* reachable from the target (a self-loop is a cycle of one edge)
OnDirectedCycle == {e \in DOMAIN graph.G.eattrs : e[1] \in ReachableFrom({e[2]})}

\* C22: when the graph has at most EDGE_CYCLE_CHECK_LIMIT edges, an output
\* edge is tagged type "cycle" with risk "high" if and only if its edge lies
\* on a directed cycle of the graph, self-loops included; every other output
\* edge is not of type "cycle" and keeps the risk it was given ("low" without one)
C22_CycleTagIffOnCycle ==
    (Built /\ graph.mode = "full"
           /\ Cardinality(DOMAIN graph.G.eattrs) <= EDGE_CYCLE_CHECK_LIMIT) =>
        With(OnDirectedCycle, LAMBDA on_cycle :
            \A i \in DOMAIN graph.edges :
                With(GraphEdgeOf(i), LAMBDA e :
                    IF e \in on_cycle
                    THEN graph.edges[i].type = "cycle" /\ graph.edges[i].risk = "high"
                    ELSE /\ graph.edges[i].type # "cycle"
                         /\ graph.edges[i].risk
                               = (IF graph.G.eattrs[e].risk = NoVal THEN "low"
                                  ELSE graph.G.eattrs[e].risk)))

\* a graph below the limit with a self-loop or a cycle of three edges in the
\* output, and an edge on no cycle
C22_Witness ==
    /\ Built
    /\ graph.mode = "full"
    /\ Cardinality(DOMAIN graph.G.eattrs) <= EDGE_CYCLE_CHECK_LIMIT
    /\ \E e \in OnDirectedCycle :
          /\ OutEdges(e[1], e[2]) # {}
          /\ <<e[2], e[1]>> \in DOMAIN graph.G.eattrs => e[1] = e[2]
    /\ \E e \in DOMAIN graph.G.eattrs \ OnDirectedCycle : OutEdges(e[1], e[2]) # {}

(***************************************************************************)
(* The weights of the file edges                                           *)
(***************************************************************************)
\* the calls of the analysis from a symbol of file S to a symbol of file T
CallsBetweenFiles(S, T) ==
    With(FuncToFile(analysis.functions), LAMBDA func_to_file :
        {i \in DOMAIN analysis.calls :
            /\ Get(func_to_file, analysis.calls[i].source, NoVal) = S
            /\ Get(func_to_file, analysis.calls[i].target, NoVal) = T})

\* the sum of the weights of the calls I of the analysis
SumOfWeights(I) ==
    FoldLeft(LAMBDA sum, i : IF i \in I THEN sum + analysis.calls[i].weight ELSE sum,
             0, [i \in DOMAIN analysis.calls |-> i])

\* the output edges of Aggregated Mode from file S to file T
OutFileEdges(S, T) ==
    {i \in DOMAIN graph.edges :
        \E j, k \in DOMAIN graph.nodes :
            /\ graph.nodes[j].file = S /\ graph.edges[i].source = graph.nodes[j].id
            /\ graph.nodes[k].file = T /\ graph.edges[i].target = graph.nodes[k].id}

\* C23 as stated: in Aggregated Mode the weight of the edge from file S to a
\* different file T is the sum of the weights of all calls of the input from
\* a symbol of S to a symbol of T, and no output edge has one file at both ends
C23_WeightIsSumOfWeights ==
    (Built /\ graph.mode = "aggregated_file") =>
        /\ \A S, T \in {graph.nodes[j].file : j \in DOMAIN graph.nodes} :
              (S # T /\ Truthy(S) /\ Truthy(T)) =>
                  \A i \in OutFileEdges(S, T) :
                      graph.edges[i].weight = SumOfWeights(CallsBetweenFiles(S, T))
        /\ \A i \in DOMAIN graph.edges : graph.edges[i].source # graph.edges[i].target

(***************************************************************************)
(* The strategy of execute                                                 *)
(***************************************************************************)
Optimized == pc = "optimized"

\* execute has run the strict layered layout
TookStrict == graph.status = "success" /\ graph.method = "Strict Layered (Performance)"

\* execute has run the hybrid layout with the iterations given
TookHybrid(iterations) ==
    /\ graph.status = "success"
    /\ graph.method \in {"Hybrid Layered (Barnes-Hut)", "Hybrid Layered (High Precision)"}
    /\ graph.iterations = iterations

\* C24 as stated: the strategy follows from the node count n alone: n > 200
\* takes the strict layered layout, 50 <= n <= 200 the hybrid layout with 50
\* iterations, n < 50 the hybrid layout with 100 iterations
C24_StrategyFromFifty ==
    Optimized =>
        With(Len(context.nodes), LAMBDA n :
            /\ n > 200 => TookStrict
            /\ (50 <= n /\ n <= 200) => TookHybrid(50)
            /\ n < 50 => TookHybrid(100))

\* C24 amended: n > 200 takes the strict layered layout, 50 < n <= 200 the
\* hybrid layout with 50 iterations, 1 <= n <= 50 the hybrid layout with 100
\* iterations; without nodes no layout is run and the call is skipped
C24_StrategyAboveFifty ==
    Optimized =>
        With(Len(context.nodes), LAMBDA n :
            /\ n > 200 => TookStrict
            /\ (50 < n /\ n <= 200) => TookHybrid(50)
            /\ (1 <= n /\ n <= 50) => TookHybrid(100)
            /\ n = 0 => graph.status = "skipped" /\ updates = <<>>)

\* a context of exactly 50 nodes, laid out with 100 iterations
C24_Witness ==
    /\ Optimized
    /\ Len(context.nodes) = 50
    /\ TookHybrid(100)
    /\ DOMAIN updates = {context.nodes[i].id : i \in DOMAIN context.nodes}

(***************************************************************************)
(* The columns of the two layouts                                          *)
(***************************************************************************)
\* the scene has no cycle: its acyclic projection keeps every edge
AcyclicScene == KeptSceneEdges = DOMAIN SceneGraph.eattrs

\* the positions _layout_layered_strict gives the scene
StrictOfScene ==
    LayoutLayeredStrict(SceneGraph, SetIter(DOMAIN SceneGraph.attrs, hashOrder))

\* every column of layers starts at the x of the column before it plus the
\* largest width of that column plus gap, the first column at 0
ColumnsStartAt(pos, layers, gap) ==
    /\ \A u \in Range(layers[1]) : pos[u].x = 0
    /\ \A k \in DOMAIN layers \ {1} :
          \A u \in Range(layers[k - 1]), v \in Range(layers[k]) :
              pos[v].x = pos[u].x + LayerWidth(SceneGraph, layers[k - 1]) + gap

\* C25 as stated: for an acyclic graph, the hybrid layout gives every node
\* the x the strict layered layout gives it, every column starting at the
\* x of the column before it plus its largest width plus a gap of 100
C25_SameXAsStrict ==
    (Relaxed /\ AcyclicScene) =>
        With(StrictOfScene, LAMBDA strict :
            /\ \A n \in DOMAIN updates : updates[n].x = strict[n].x
            /\ ColumnsStartAt(updates, SceneLayers, 100))

\* C25 amended: for an acyclic graph the two layouts have the same columns,
\* every column starting at the x of the column before it plus its largest
\* width plus a fixed gap; the gap is 150 in the hybrid layout and 100 in the
\* strict layered layout, so the x values agree in the first column only
C25_SameColumnsAsStrict ==
    (Relaxed /\ AcyclicScene) =>
        With(StrictOfScene, LAMBDA strict :
            With(SceneLayers, LAMBDA layers :
                /\ layers = StrictLayers(SceneGraph,
                                         SetIter(DOMAIN SceneGraph.attrs, hashOrder))
                /\ DOMAIN updates = DOMAIN strict
                /\ ColumnsStartAt(updates, layers, 150)
                /\ ColumnsStartAt(strict, layers, 100)
                /\ \A n \in DOMAIN updates :
                       updates[n].x = strict[n].x <=> n \in Range(layers[1])))

\* an acyclic scene of three columns after the hybrid layout
C25_Witness ==
    /\ Relaxed
    /\ AcyclicScene
    /\ Len(SceneLayers) = 3
    /\ \E n \in DOMAIN updates : updates[n].x # StrictOfScene[n].x

(***************************************************************************)
(* The gaps of a column                                                    *)
(***************************************************************************)
\* (h_u + h_v) / 2 + MIN_DIST_Y
MinGap(u, v) ==
    FracAdd(Frac(InputOf(u).height + InputOf(v).height, 2), Frac(HYBRID_MIN_DIST_Y, 1))

\* u and v are neighbours in the y order of the nodes column, u above v
YNeighbours(column, u, v) ==
    /\ u # v
    /\ ~FracLess(updates[v].y, updates[u].y)
    /\ ~\E w \in column \ {u, v} :
           FracLess(updates[u].y, updates[w].y) /\ FracLess(updates[w].y, updates[v].y)

\* the columns of three or more nodes, none of them locked
FreeColumns ==
    {column \in {Range(SceneLayers[k]) : k \in DOMAIN SceneLayers} :
        Cardinality(column) >= 3 /\ column \cap LockedNodes(context) = {}}

\* C26 as stated: after the collision sweep of the hybrid layout over a
\* column of three or more nodes, none locked, every two neighbours u, v in
\* y order are at least (h_u + h_v) / 2 + 80 apart
C26_ColumnIsSpaced ==
    (Relaxed /\ graph.iterations > 0) =>
        \A column \in FreeColumns :
            \A u, v \in column :
                YNeighbours(column, u, v) =>
                    ~FracLess(FracSub(updates[v].y, updates[u].y), MinGap(u, v))

(***************************************************************************)
(* The origin of a layout                                                  *)
(***************************************************************************)
ScenePlaced == pc = "placed"

\* the smallest x and the smallest y of the output nodes of build_graph
OutMinX == MinOf({graph.nodes[i].x : i \in DOMAIN graph.nodes})

OutMinY == MinOf({graph.nodes[i].y : i \in DOMAIN graph.nodes})

\* the smallest x of the positions a layout of the optimizer has returned
UpdatesMinX == MinOf({updates[n].x : n \in DOMAIN updates})

\* no returned y is below y, and one is y
UpdatesMinYIs(y) ==
    /\ \E n \in DOMAIN updates : updates[n].y = y
    /\ \A n \in DOMAIN updates : ~FracLess(updates[n].y, y)

\* C27 as stated: the output nodes of build_graph, in both modes, and the
\* positions the strict layered and the hybrid layout return have their
\* smallest x and their smallest y at one fixed positive offset
C27_OriginEverywhere ==
    /\ (Built /\ graph.nodes # <<>>) => OutMinX = ORIGIN_OFFSET /\ OutMinY = ORIGIN_OFFSET
    /\ ScenePlaced =>
          /\ UpdatesMinX = ORIGIN_OFFSET
          /\ MinOf({updates[n].y : n \in DOMAIN updates}) = ORIGIN_OFFSET
    /\ Relaxed => UpdatesMinX = ORIGIN_OFFSET /\ UpdatesMinYIs(Frac(ORIGIN_OFFSET, 1))

\* C27 amended: the output nodes of build_graph, in both modes, have their
\* smallest x and their smallest y at the offset 100; the positions the
\* strict layered layout returns have their smallest x and y at 0, and the
\* positions the hybrid layout returns have their smallest x at 0 and their
\* y values where the relaxation has left them
C27_OriginOfBuildGraph ==
    /\ (Built /\ graph.nodes # <<>>) => OutMinX = ORIGIN_OFFSET /\ OutMinY = ORIGIN_OFFSET
    /\ ScenePlaced =>
          /\ UpdatesMinX = 0
          /\ MinOf({updates[n].y : n \in DOMAIN updates}) = 0
    /\ Relaxed => UpdatesMinX = 0

\* an Aggregated Mode output of two columns at the offset
C27_Witness ==
    /\ Built
    /\ graph.mode = "aggregated_file"
    /\ Len(graph.nodes) >= 2
    /\ OutMinX = ORIGIN_OFFSET
    /\ \E i \in DOMAIN graph.nodes : graph.nodes[i].x > ORIGIN_OFFSET

\* a hybrid layout with a node above y = 0
C27_HybridAboveOrigin ==
    Relaxed /\ \E n \in DOMAIN updates : FracLess(updates[n].y, Frac(0, 1))

(***************************************************************************)
(* The acyclic projection of the strict layered layout                     *)
(***************************************************************************)
\* the simple cycles _layout_layered_strict enumerates in the scene
SceneCycles == SimpleCycles(SceneGraph, SetIter(DOMAIN SceneGraph.attrs, hashOrder))

\* the scene without the closing edge of every enumerated cycle
WithoutClosingEdges == RemoveEdges(SceneGraph, {ClosingEdge(cyc) : cyc \in SceneCycles})

\* C28 as stated: for every scene with cycles the strict layered layout
\* works on the scene without the closing edge of each enumerated simple
\* cycle, also when cycles share a closing edge; that graph is acyclic,
\* and every edge it keeps has its source at a smaller x than its target
C28_StrictOnProjection ==
    (ScenePlaced /\ SceneCycles # {}) =>
        With(WithoutClosingEdges, LAMBDA projection :
            /\ StrictDag(SceneGraph, SceneCycles) = projection
            /\ TopologicalGenerations(projection).ok
            /\ \A e \in DOMAIN projection.eattrs : updates[e[1]].x < updates[e[2]].x)

(***************************************************************************)
(* The caller's analysis result                                            *)
(***************************************************************************)
\* C29 as stated: build_graph leaves the analysis result it is given as it
\* was, in Full Mode and in Aggregated Mode
C29_InputUnchanged == [][BuildGraph => analysis' = analysis]_vars

(***************************************************************************)
(* Node ids and edge end points                                            *)
(***************************************************************************)
\* the override entries that name both end points
OverrideEdgesNamed ==
    {i \in DOMAIN relations : Truthy(relations[i].source) /\ Truthy(relations[i].target)}

\* C30: in both modes the ids of the output nodes are 0..N-1 in output
\* order, and the source and the target of every output edge are ids of
\* output nodes; in Full Mode each end point an override entry names is an
\* output node, made for the entry if no symbol has the name, and the edge
\* of the entry joins the two nodes in the output
C30_DenseIdsNoDanglingEdge ==
    Built =>
        /\ \A i \in DOMAIN graph.nodes : graph.nodes[i].id = i - 1
        /\ \A i \in DOMAIN graph.edges :
              /\ graph.edges[i].source \in 0..(Len(graph.nodes) - 1)
              /\ graph.edges[i].target \in 0..(Len(graph.nodes) - 1)
        /\ graph.mode = "full" =>
              /\ \A i \in DOMAIN relations :
                    \A n \in {relations[i].source, relations[i].target} :
                        Truthy(n) => Cardinality(OutNodes(n)) = 1
              /\ \A i \in OverrideEdgesNamed :
                    /\ Cardinality(OutEdges(relations[i].source, relations[i].target)) = 1
                    /\ relations[i].direction = "bidirectional" =>
                          Cardinality(OutEdges(relations[i].target,
                                               relations[i].source)) = 1

\* a Full Mode output with an edge between a symbol and a node that only an
\* override entry names
C30_Witness ==
    /\ Built
    /\ graph.mode = "full"
    /\ Len(graph.nodes) >= 3
    /\ \E i \in OverrideEdgesNamed :
          /\ relations[i].source \in InputNames
          /\ relations[i].target \notin InputNames \cup InputFiles
          /\ OutEdges(relations[i].source, relations[i].target) # {}

====
